---------------------------- MODULE Spec2Model ----------------------------
(***************************************************************************)
(* A model of golap, a streaming SQL engine over CSV files: the external   *)
(* merge sort operator (SortOp), the zone map (GenerateZoneMap, CanPrune), *)
(* the scalar aggregate operator and the Close chain of an operator tree.  *)
(*                                                                         *)
(* Go strings are sequences of byte codes, so that formatting, parsing and *)
(* lexicographic comparison are computed and not assumed.  A Go value of   *)
(* type interface{} is a record [t |-> dynamic type, v |-> payload], the    *)
(* payload a tuple of integers: <<n>> for the int64 n, <<num, den>> for a  *)
(* float64, the bytes of a string, <<>> for nil.                           *)
(***************************************************************************)
EXTENDS Integers, Sequences, FiniteSets, TLC

(***************************************************************************)
(* Bounds of the model.                                                    *)
(***************************************************************************)
\* the longest upstream row sequence handed to SortOp
MaxRows == 3
\* the largest chunk size of SortOp (chunk sizes are 1..MaxChunk)
MaxChunk == 2
\* how many times the consumer calls Close on the root of a tree
MaxCloses == 2
\* the most data records of a CSV file handed to GenerateZoneMap
MaxZoneRows == 3
\* the longest upstream row sequence handed to ScalarAggregateOp
MaxAggRows == 3

(***************************************************************************)
(* Strings and strconv.                                                    *)
(***************************************************************************)
IsDigit(c) == c >= 48 /\ c <= 57

RECURSIVE DigitsValue(_)
DigitsValue(s) ==
    IF s = <<>> THEN 0
    ELSE 10 * DigitsValue(SubSeq(s, 1, Len(s) - 1)) + (s[Len(s)] - 48)

AllDigits(s) == s # <<>> /\ \A i \in 1..Len(s) : IsDigit(s[i])

\* strconv.ParseInt(s, 10, 64): an optional sign, then one or more digits.
ParseInt(s) ==
    LET signed == s # <<>> /\ s[1] \in {43, 45}
        body   == IF signed THEN Tail(s) ELSE s
        neg    == signed /\ s[1] = 45
    IN  IF AllDigits(body)
        THEN [ok |-> TRUE,
              v  |-> IF neg THEN 0 - DigitsValue(body) ELSE DigitsValue(body)]
        ELSE [ok |-> FALSE, v |-> 0]

RECURSIVE NatDigits(_)
NatDigits(n) ==
    IF n < 10 THEN <<48 + n>> ELSE NatDigits(n \div 10) \o <<48 + (n % 10)>>

\* strconv.FormatInt(v, 10)
FormatInt(v) == IF v < 0 THEN <<45>> \o NatDigits(0 - v) ELSE NatDigits(v)

(***************************************************************************)
(* float64 values are rationals <<num, den>> in lowest terms, den > 0.     *)
(***************************************************************************)
RECURSIVE Gcd(_, _)
Gcd(a, b) == IF b = 0 THEN a ELSE Gcd(b, a % b)

Abs(n) == IF n < 0 THEN 0 - n ELSE n

Rat(n, d) ==
    LET g == Gcd(Abs(n), Abs(d))
        s == IF d < 0 THEN 0 - 1 ELSE 1
    IN  <<(s * n) \div g, (s * d) \div g>>

RatLess(a, b) == a[1] * b[2] < b[1] * a[2]

RECURSIVE Pow10(_)
Pow10(k) == IF k = 0 THEN 1 ELSE 10 * Pow10(k - 1)

IndexOf(s, c) ==
    IF \E i \in 1..Len(s) : s[i] = c
    THEN CHOOSE i \in 1..Len(s) : s[i] = c /\ \A j \in 1..(i - 1) : s[j] # c
    ELSE 0

\* strconv.ParseFloat(s, 64) on decimal notation: sign, digits, an optional
\* point and digits (at least one digit in all).
ParseFloat(s) ==
    LET signed == s # <<>> /\ s[1] \in {43, 45}
        body   == IF signed THEN Tail(s) ELSE s
        neg    == signed /\ s[1] = 45
        dot    == IndexOf(body, 46)
        ip     == IF dot = 0 THEN body ELSE SubSeq(body, 1, dot - 1)
        fp     == IF dot = 0 THEN <<>> ELSE SubSeq(body, dot + 1, Len(body))
        digits == ip \o fp
        mag    == Rat(DigitsValue(digits), Pow10(Len(fp)))
    IN  IF AllDigits(digits)
        THEN [ok |-> TRUE, v |-> IF neg THEN <<0 - mag[1], mag[2]>> ELSE mag]
        ELSE [ok |-> FALSE, v |-> <<0, 1>>]

\* The digits of n, left-padded with zeros to k digits.
RECURSIVE PadDigits(_, _)
PadDigits(n, k) ==
    IF k = 0 THEN <<>> ELSE PadDigits(n \div 10, k - 1) \o <<48 + (n % 10)>>

\* The least k with den dividing 10^k (the float is a finite decimal).
RECURSIVE DecimalPlaces(_, _)
DecimalPlaces(den, k) ==
    IF Pow10(k) % den = 0 THEN k ELSE DecimalPlaces(den, k + 1)

\* strconv.FormatFloat(v, 'f', -1, 64): the shortest decimal that parses back
\* to v, without exponent.
FormatFloat(f) ==
    LET k    == DecimalPlaces(f[2], 0)
        m    == Abs(f[1]) * (Pow10(k) \div f[2])
        sign == IF f[1] < 0 THEN <<45>> ELSE <<>>
    IN  IF k = 0 THEN sign \o NatDigits(m)
        ELSE sign \o NatDigits(m \div Pow10(k)) \o <<46>> \o PadDigits(m % Pow10(k), k)

\* Go's < on strings: bytewise lexicographic.
RECURSIVE StrLess(_, _)
StrLess(a, b) ==
    IF b = <<>> THEN FALSE
    ELSE IF a = <<>> THEN TRUE
    ELSE IF a[1] # b[1] THEN a[1] < b[1]
    ELSE StrLess(Tail(a), Tail(b))

(***************************************************************************)
(* Values (interface{}), data types and rows.                              *)
(***************************************************************************)
IntV(n) == [t |-> "int64", v |-> <<n>>]
FloatV(f) == [t |-> "float64", v |-> f]
StrV(s) == [t |-> "string", v |-> s]
NilV == [t |-> "nil", v |-> <<>>]

\* fmt.Sprintf("%v", nil)
NilText == <<60, 110, 105, 108, 62>>

\* A parseValue that keeps the text of a value that does not parse.
parseValueKeepText(val, dt) ==
    CASE dt = "Int" ->
            IF ParseInt(val).ok THEN IntV(ParseInt(val).v) ELSE StrV(val)
      [] dt = "Float" ->
            IF ParseFloat(val).ok THEN FloatV(ParseFloat(val).v) ELSE StrV(val)
      [] OTHER -> StrV(val)

\* parseValue: a value that does not parse as the column's numeric type
\* becomes the typed zero.
parseValue(val, dt) ==
    CASE dt = "Int" ->
            IF ParseInt(val).ok THEN IntV(ParseInt(val).v) ELSE IntV(0)
      [] dt = "Float" ->
            IF ParseFloat(val).ok THEN FloatV(ParseFloat(val).v) ELSE FloatV(<<0, 1>>)
      [] OTHER -> StrV(val)

(***************************************************************************)
(* State.                                                                  *)
(***************************************************************************)
VARIABLES
    \* the upstream operator of SortOp / ScalarAggregateOp: the rows it has yet
    \* to return, whether it has returned end-of-stream, and the source file
    \* handle of the CSVScan at its bottom
    input, inputEOS, srcFile,
    \* SortOp's fields
    columnIndex, desc, chunkSize, schema,
    prepared, tempFiles, readers, files, mergeHeap, exhausted,
    \* SortOp.Next in progress: the position in prepare / setupMerge / Next,
    \* prepare's local chunk and setupMerge's loop index
    pc, chunk, setupIdx,
    \* the operating system: the temporary directory (file name -> records),
    \* the number of names os.CreateTemp has handed out, the open-file table
    disk, tempSeq, handles,
    \* whether the environment has already failed one I/O operation
    fault,
    \* history: the rows upstream was constructed with, the rows Next has
    \* returned, what the last Next returned, whether some Next returned an
    \* error, what each Close call returned
    given, out, lastRet, nextFailed, closeRets,
    \* GenerateZoneMap: the CSV file (header and data records), the position in
    \* the function, the number of data records read, its maps, and the last
    \* CanPrune call made on the finished zone map
    header, csvRows, zmPc, rowCount, isIntColumn, minValues, maxValues, pruneCall,
    \* ScalarAggregateOp's fields, the position in its Next and Next's local
    \* running states
    aggregates, computed, resultRow, aggPc, states,
    \* the other operators, each a record of its fields and of the position in
    \* its Next: HashAggregateOp, LimitOp, FilterOp, ProjectOp, CSVScan
    hashOp, limitOp, filterOp, projectOp, scanOp,
    \* the last call of compare (its operands and its result) and the last
    \* call of ParseAndPlan (its query and its result)
    cmpCall, planCall,
    \* two SortOp instances over one directory of temporary files, and the
    \* last call of SortOp.compareRows and mergeHeap.compareRows
    sortPair, rowCmp

\* what construction fixes
cfgVars == <<columnIndex, desc, chunkSize, schema, given>>
\* SortOp's merge state
mergeVars == <<readers, files, mergeHeap, handles>>
zmVars == <<header, csvRows, zmPc, rowCount, isIntColumn, minValues,
            maxValues, pruneCall>>
aggVars == <<aggregates, computed, resultRow, aggPc, states>>
sortVars == <<input, inputEOS, srcFile, cfgVars, prepared, tempFiles, mergeVars,
              exhausted, pc, chunk, setupIdx, disk, tempSeq, fault,
              out, lastRet, nextFailed, closeRets>>
opVars == <<hashOp, limitOp, filterOp, projectOp, scanOp, cmpCall, planCall,
            sortPair, rowCmp>>
vars == <<sortVars, zmVars, aggVars, opVars>>

(***************************************************************************)
(* SortOp: serialization of rows to run files.                             *)
(***************************************************************************)
\* rowToRecord: any value that is no int64, float64 or string (nil) is
\* written as fmt.Sprintf("%v", val).
rowToRecord(row) ==
    [i \in 1..Len(row) |->
        CASE row[i].t = "int64" -> FormatInt(row[i].v[1])
          [] row[i].t = "float64" -> FormatFloat(row[i].v)
          [] row[i].t = "string" -> row[i].v
          [] OTHER -> NilText]

\* recordToRow: each field is parsed by the schema type of its column.
recordToRow(record) ==
    [i \in 1..Len(record) |->
        IF i - 1 < Len(schema) THEN parseValue(record[i], schema[i])
        ELSE StrV(record[i])]

(***************************************************************************)
(* SortOp: the comparator (SortOp.compareRows and mergeHeap.compareRows    *)
(* are the same code).                                                     *)
(***************************************************************************)
Sign(lt, gt) == IF lt THEN 0 - 1 ELSE IF gt THEN 1 ELSE 0

compareRows(a, b) ==
    IF columnIndex < 0 \/ columnIndex >= Len(a) \/ columnIndex >= Len(b) THEN 0
    ELSE LET aVal == a[columnIndex + 1]
             bVal == b[columnIndex + 1]
         IN  CASE aVal.t = "int64" ->
                    IF bVal.t # "int64" THEN 0
                    ELSE Sign(aVal.v[1] < bVal.v[1], aVal.v[1] > bVal.v[1])
               [] aVal.t = "float64" ->
                    IF bVal.t # "float64" THEN 0
                    ELSE Sign(RatLess(aVal.v, bVal.v), RatLess(bVal.v, aVal.v))
               [] aVal.t = "string" ->
                    IF bVal.t # "string" THEN 0
                    ELSE Sign(StrLess(aVal.v, bVal.v), StrLess(bVal.v, aVal.v))
               [] OTHER -> 0

\* The less function of flushChunk's sort.Slice and of mergeHeap.Less.
rowLess(a, b) == IF desc THEN compareRows(a, b) > 0 ELSE compareRows(a, b) < 0

\* A flushChunk that writes the chunk in the order the rows came.
sortSliceNot(s) == {s}

\* sort.Slice(chunk, less): some permutation of chunk in which no element is
\* less than its predecessor (sort.Slice is not stable, so every such
\* permutation is a possible result).
sortSlice(s) ==
    {[i \in 1..Len(s) |-> s[p[i]]] : p \in
        {q \in Permutations(1..Len(s)) :
            \A i \in 1..(Len(s) - 1) : ~rowLess(s[q[i + 1]], s[q[i]])}}

(***************************************************************************)
(* container/heap over mergeHeap (indices are Go's, from 0).               *)
(***************************************************************************)
heapLess(items, i, j) == rowLess(items[i + 1].row, items[j + 1].row)

heapSwap(items, i, j) ==
    [items EXCEPT ![i + 1] = items[j + 1], ![j + 1] = items[i + 1]]

RECURSIVE heapUp(_, _)
heapUp(items, j) ==
    LET i == IF j = 0 THEN 0 ELSE (j - 1) \div 2
    IN  IF i = j \/ ~heapLess(items, j, i) THEN items
        ELSE heapUp(heapSwap(items, i, j), i)

RECURSIVE heapDown(_, _, _)
heapDown(items, i, n) ==
    LET j1 == 2 * i + 1
        j  == IF j1 + 1 < n /\ heapLess(items, j1 + 1, j1) THEN j1 + 1 ELSE j1
    IN  IF j1 >= n THEN items
        ELSE IF ~heapLess(items, j, i) THEN items
        ELSE heapDown(heapSwap(items, i, j), j, n)

\* heap.Push(h, x)
heapPush(items, x) == heapUp(Append(items, x), Len(items))

\* heap.Pop(h): the popped item and the remaining items
heapPop(items) ==
    LET n == Len(items) - 1
        d == heapDown(heapSwap(items, 0, n), 0, n)
    IN  [item |-> d[n + 1], items |-> SubSeq(d, 1, n)]

\* The components a behaviour does not run stay as they are.
ZoneMapUnused ==
    /\ header = <<>>
    /\ csvRows = <<>>
    /\ zmPc = "unused"
    /\ rowCount = 0
    /\ isIntColumn = {}
    /\ minValues = <<>>
    /\ maxValues = <<>>
    /\ pruneCall = <<>>

AggregateUnused ==
    /\ aggregates = <<>>
    /\ computed = FALSE
    /\ resultRow = <<>>
    /\ aggPc = "unused"
    /\ states = <<>>

\* An operator, or a function, that a specification does not construct.
Unused == [pc |-> "unused"]

OpsUnused ==
    /\ hashOp = Unused
    /\ limitOp = Unused
    /\ filterOp = Unused
    /\ projectOp = Unused
    /\ scanOp = Unused
    /\ cmpCall = Unused
    /\ planCall = Unused
    /\ sortPair = Unused
    /\ rowCmp = Unused

SortUnused ==
    /\ columnIndex = 0
    /\ desc = FALSE
    /\ chunkSize = 0
    /\ schema = <<>>
    /\ prepared = FALSE
    /\ tempFiles = <<>>
    /\ readers = <<>>
    /\ files = <<>>
    /\ mergeHeap = [nil |-> TRUE, items |-> <<>>]
    /\ handles = <<>>
    /\ exhausted = FALSE
    /\ pc = "unused"
    /\ chunk = <<>>
    /\ setupIdx = 0
    /\ disk = <<>>
    /\ tempSeq = 0

(***************************************************************************)
(* SortOp over an upstream operator.                                       *)
(***************************************************************************)
\* The values of the sort column, by the column's type; any column may also
\* hold nil (an aggregate over no numeric value).
SortValues(ty) ==
    CASE ty = "Int" -> {IntV(5), IntV(10), IntV(20), NilV}
      [] ty = "Float" -> {FloatV(<<1, 2>>), FloatV(<<2, 1>>), NilV}
      [] OTHER -> {StrV(<<97>>), StrV(<<97, 98>>), NilV}

\* NewSortOpWithChunkSize over an upstream of rows (id, val), id = 1, 2, ...
SortInit ==
    /\ OpsUnused
    /\ ZoneMapUnused
    /\ AggregateUnused
    /\ inputEOS = FALSE
    /\ \E ty \in {"Int", "Float", "String"}, n \in 0..MaxRows :
         \E vs \in [1..n -> SortValues(ty)] :
            /\ given = [i \in 1..n |-> <<IntV(i), vs[i]>>]
            /\ schema = <<"Int", ty>>
    /\ input = given
    /\ srcFile = "open"
    /\ columnIndex = 1
    /\ desc \in BOOLEAN
    /\ chunkSize \in 1..MaxChunk
    /\ prepared = FALSE
    /\ tempFiles = <<>>
    /\ readers = <<>>
    /\ files = <<>>
    /\ mergeHeap = [nil |-> TRUE, items |-> <<>>]
    /\ exhausted = FALSE
    /\ pc = "idle"
    /\ chunk = <<>>
    /\ setupIdx = 0
    /\ disk = <<>>
    /\ tempSeq = 0
    /\ handles = <<>>
    /\ fault = FALSE
    /\ out = <<>>
    /\ lastRet = "none"
    /\ nextFailed = FALSE
    /\ closeRets = <<>>

\* SortOp.Next returns (nil, err); prepare's chunk goes out of scope.
ReturnErr ==
    /\ pc' = "idle"
    /\ chunk' = <<>>
    /\ lastRet' = "err"
    /\ nextFailed' = TRUE

\* The environment fails the I/O operation at hand (at most once).
Fail == ~fault /\ fault' = TRUE

\* A Next that runs prepare at every call.
preparedNever == FALSE

\* Next's first test, and prepare's: s.prepared
preparedAlready == prepared

\* SortOp.Next is called: prepare runs unless it has succeeded before.
SortNext ==
    /\ UNCHANGED opVars
    /\ UNCHANGED <<inputEOS, zmVars, aggVars>>
    /\ pc = "idle"
    /\ closeRets = <<>>
    /\ IF preparedAlready THEN pc' = "merge" ELSE pc' = "partition"
    /\ chunk' = <<>>
    /\ UNCHANGED <<input, srcFile, cfgVars, prepared, tempFiles, mergeVars,
                   exhausted, setupIdx, disk, tempSeq, fault, out, lastRet,
                   nextFailed, closeRets>>

\* A prepare that flushes one row late.
chunkFullLate(c) == Len(c) > chunkSize

\* prepare flushes the chunk as soon as it holds chunkSize rows.
chunkFull(c) == Len(c) >= chunkSize

\* A prepare that flushes what is left of the chunk even when nothing is.
tailToFlushAlways(c) == TRUE

\* prepare after its loop: the rows left in the chunk are flushed as a last
\* run if there are any.
tailToFlush(c) == Len(c) > 0

\* prepare, one iteration of its loop: s.input.Next()
PreparePull ==
    /\ UNCHANGED opVars
    /\ UNCHANGED <<zmVars, aggVars>>
    /\ pc = "partition"
    /\ \/ /\ Fail
          /\ ReturnErr
          /\ UNCHANGED <<input, inputEOS>>
       \/ /\ input # <<>>
          /\ chunk' = Append(chunk, Head(input))
          /\ input' = Tail(input)
          /\ pc' = IF chunkFull(chunk') THEN "flush" ELSE "partition"
          /\ UNCHANGED <<inputEOS, fault, lastRet, nextFailed>>
       \/ /\ input = <<>>
          /\ inputEOS' = TRUE
          /\ pc' = IF tailToFlush(chunk) THEN "flushTail" ELSE "setup"
          /\ UNCHANGED <<input, chunk, fault, lastRet, nextFailed>>
    /\ UNCHANGED <<srcFile, cfgVars, prepared, tempFiles, mergeVars, exhausted,
                   setupIdx, disk, tempSeq, out, closeRets>>

\* A flushChunk that leaves the file of a failed write where it is.
osRemoveNothing(dir, name) == dir
\* os.Remove(name): the directory without the file.
osRemove(dir, name) == [n \in DOMAIN dir \ {name} |-> dir[n]]

\* flushChunk: sort the chunk, write it to a new temporary file and register
\* the file as a run.  When writing fails the file is removed and no run is
\* registered.
FlushChunk ==
    /\ UNCHANGED opVars
    /\ UNCHANGED <<inputEOS, zmVars, aggVars>>
    /\ pc \in {"flush", "flushTail"}
    /\ \E sorted \in sortSlice(chunk) :
         \/ /\ Fail                                   \* os.CreateTemp fails
            /\ ReturnErr
            /\ UNCHANGED <<tempFiles, disk, tempSeq>>
         \/ /\ Fail                                   \* a write fails
            /\ ReturnErr
            /\ tempSeq' = tempSeq + 1
            /\ disk' = osRemove([n \in DOMAIN disk \cup {tempSeq + 1} |->
                                    IF n = tempSeq + 1 THEN <<>> ELSE disk[n]],
                                 tempSeq + 1)
            /\ UNCHANGED tempFiles
         \/ /\ tempSeq' = tempSeq + 1
            /\ disk' = [n \in DOMAIN disk \cup {tempSeq + 1} |->
                          IF n = tempSeq + 1
                          THEN [i \in 1..Len(sorted) |-> rowToRecord(sorted[i])]
                          ELSE disk[n]]
            /\ tempFiles' = Append(tempFiles, tempSeq + 1)
            /\ chunk' = IF pc = "flush" THEN <<>> ELSE sorted
            /\ pc' = IF pc = "flush" THEN "partition" ELSE "setup"
            /\ UNCHANGED <<fault, lastRet, nextFailed>>
    /\ UNCHANGED <<input, srcFile, cfgVars, prepared, mergeVars, exhausted,
                   setupIdx, out, closeRets>>

\* setupMerge, before its loop: with no run the operator is exhausted and
\* prepare succeeds; else the reader and file tables and the heap are made.
SetupBegin ==
    /\ UNCHANGED opVars
    /\ UNCHANGED <<inputEOS, zmVars, aggVars>>
    /\ pc = "setup"
    /\ IF Len(tempFiles) = 0
       THEN /\ exhausted' = TRUE
            /\ prepared' = TRUE
            /\ pc' = "merge"
            /\ chunk' = <<>>
            /\ UNCHANGED <<mergeVars, setupIdx>>
       ELSE /\ readers' = [i \in 1..Len(tempFiles) |-> 0]
            /\ files' = [i \in 1..Len(tempFiles) |-> 0]
            /\ mergeHeap' = [nil |-> FALSE, items |-> <<>>]
            /\ setupIdx' = 0
            /\ pc' = "open"
            /\ UNCHANGED <<handles, exhausted, prepared, chunk>>
    /\ UNCHANGED <<input, srcFile, cfgVars, tempFiles, disk, tempSeq, fault,
                   out, lastRet, nextFailed, closeRets>>

\* The record a run's csv.Reader returns next: readers[i] counts the records
\* read from run i (from 0).
AtEOF(i) == readers[i + 1] >= Len(disk[tempFiles[i + 1]])
NextRecord(i) == disk[tempFiles[i + 1]][readers[i + 1] + 1]

\* setupMerge, one iteration of its loop: open run i, read its first record
\* and push it on the heap.
SetupOpen ==
    /\ UNCHANGED opVars
    /\ UNCHANGED <<inputEOS, zmVars, aggVars>>
    /\ pc = "open"
    /\ LET i    == setupIdx
           path == tempFiles[i + 1]
           h    == Len(handles) + 1
           last == i + 1 = Len(tempFiles)
           done == /\ setupIdx' = i + 1
                   /\ prepared' = last
                   /\ pc' = IF last THEN "merge" ELSE "open"
                   /\ chunk' = IF last THEN <<>> ELSE chunk
                   /\ UNCHANGED <<fault, lastRet, nextFailed>>
       IN  \/ /\ Fail                                 \* os.Open fails
              /\ ReturnErr
              /\ UNCHANGED <<mergeVars, setupIdx, prepared>>
           \/ /\ Fail                                 \* the first Read fails
              /\ ReturnErr
              /\ handles' = Append(handles, [name |-> path, open |-> TRUE])
              /\ files' = [files EXCEPT ![i + 1] = h]
              /\ UNCHANGED <<readers, mergeHeap, setupIdx, prepared>>
           \/ /\ AtEOF(i)                             \* an empty run
              /\ handles' = Append(handles, [name |-> path, open |-> TRUE])
              /\ files' = [files EXCEPT ![i + 1] = h]
              /\ UNCHANGED <<readers, mergeHeap>>
              /\ done
           \/ /\ ~AtEOF(i)
              /\ handles' = Append(handles, [name |-> path, open |-> TRUE])
              /\ files' = [files EXCEPT ![i + 1] = h]
              /\ readers' = [readers EXCEPT ![i + 1] = @ + 1]
              /\ mergeHeap' = [mergeHeap EXCEPT !.items =
                    heapPush(@, [row |-> recordToRow(NextRecord(i)),
                                 fileIndex |-> i])]
              /\ done
    /\ UNCHANGED <<input, srcFile, cfgVars, tempFiles, exhausted, disk,
                   tempSeq, out, closeRets>>

\* A Next that refills from the first run, whichever run the row came from.
refillFirst(item) == 0

\* The run Next reads the replacement of a popped item from.
refillIndex(item) == item.fileIndex

\* SortOp.Next after prepare: pop the heap's first item, replace it by the
\* next row of the same run, return the popped row.
Merge ==
    /\ UNCHANGED opVars
    /\ UNCHANGED <<inputEOS, zmVars, aggVars>>
    /\ pc = "merge"
    /\ \/ /\ exhausted \/ mergeHeap.nil \/ Len(mergeHeap.items) = 0
          /\ pc' = "idle"
          /\ lastRet' = "eos"
          /\ UNCHANGED <<mergeVars, fault, out, nextFailed>>
       \/ /\ ~(exhausted \/ mergeHeap.nil \/ Len(mergeHeap.items) = 0)
          /\ LET popped == heapPop(mergeHeap.items)
                 i      == refillIndex(popped.item)
                 ret    == /\ pc' = "idle"
                           /\ lastRet' = "row"
                           /\ out' = Append(out, popped.item.row)
                           /\ UNCHANGED <<fault, nextFailed>>
             IN  \/ /\ Fail                           \* the Read fails
                    /\ pc' = "idle"
                    /\ lastRet' = "err"
                    /\ nextFailed' = TRUE
                    /\ mergeHeap' = [mergeHeap EXCEPT !.items = popped.items]
                    /\ UNCHANGED <<readers, out>>
                 \/ /\ AtEOF(i)
                    /\ mergeHeap' = [mergeHeap EXCEPT !.items = popped.items]
                    /\ UNCHANGED readers
                    /\ ret
                 \/ /\ ~AtEOF(i)
                    /\ readers' = [readers EXCEPT ![i + 1] = @ + 1]
                    /\ mergeHeap' = [mergeHeap EXCEPT !.items =
                          heapPush(popped.items,
                                   [row |-> recordToRow(NextRecord(i)),
                                    fileIndex |-> i])]
                    /\ ret
          /\ UNCHANGED <<files, handles>>
    /\ UNCHANGED <<input, srcFile, cfgVars, prepared, tempFiles, exhausted,
                   chunk, setupIdx, disk, tempSeq, closeRets>>

\* A Close that fails on a source that has not been read to its end.
scanCloseFailsUndrained(ioerr) == srcFile = "closed" \/ ioerr \/ ~inputEOS
\* CSVScan.Close: s.file is never set to nil, so every call closes the file;
\* os.File.Close fails on a file that is closed already.
scanCloseFails(ioerr) == srcFile = "closed" \/ ioerr

\* SortOp.Close: close the input and, unless that fails, close the files
\* of the file table and remove the registered run files.
SortClose ==
    /\ UNCHANGED opVars
    /\ UNCHANGED <<inputEOS, zmVars, aggVars>>
    /\ pc = "idle"
    /\ Len(closeRets) < MaxCloses
    /\ \E ioerr \in BOOLEAN :
         /\ IF ioerr THEN Fail ELSE UNCHANGED fault
         /\ srcFile' = "closed"
         /\ IF scanCloseFails(ioerr)
            THEN /\ closeRets' = Append(closeRets, "err")
                 /\ UNCHANGED <<handles, disk>>
            ELSE /\ closeRets' = Append(closeRets, "nil")
                 /\ handles' = [h \in 1..Len(handles) |->
                       IF \E i \in 1..Len(files) : files[i] = h
                       THEN [handles[h] EXCEPT !.open = FALSE]
                       ELSE handles[h]]
                 /\ disk' = [n \in DOMAIN disk \ {tempFiles[i] : i \in 1..Len(tempFiles)}
                               |-> disk[n]]
    /\ UNCHANGED <<input, cfgVars, prepared, tempFiles, readers, files,
                   mergeHeap, exhausted, pc, chunk, setupIdx, tempSeq, out,
                   lastRet, nextFailed>>

SortStep ==
    \/ SortNext
    \/ PreparePull
    \/ FlushChunk
    \/ SetupBegin
    \/ SetupOpen
    \/ Merge
    \/ SortClose

SpecSort == SortInit /\ [][SortStep]_vars

(***************************************************************************)
(* Properties of SortOp.                                                   *)
(***************************************************************************)
Count(seq, x) == Cardinality({i \in 1..Len(seq) : seq[i] = x})

\* The two sequences hold the same rows, each as often.
SameRows(a, b) ==
    /\ Len(a) = Len(b)
    /\ \A i \in 1..Len(a) : Count(a, a[i]) = Count(b, a[i])

\* The order of the values of one column, written without the comparator:
\* numbers by value, text bytewise; nil is comparable to nil only.
ValueLeq(x, y) ==
    /\ x.t = y.t
    /\ CASE x.t = "int64" -> x.v[1] <= y.v[1]
         [] x.t = "float64" -> ~RatLess(y.v, x.v)
         [] x.t = "string" -> ~StrLess(y.v, x.v)
         [] OTHER -> TRUE

\* A full in-memory sort of rows by the sort column would give seq.
OrderedByKey(seq) ==
    \A i \in 1..(Len(seq) - 1) :
        IF desc THEN ValueLeq(seq[i + 1][columnIndex + 1], seq[i][columnIndex + 1])
        ELSE ValueLeq(seq[i][columnIndex + 1], seq[i + 1][columnIndex + 1])

NoNil(seq) == \A i \in 1..Len(seq) : \A j \in 1..Len(seq[i]) : seq[i][j].t # "nil"

\* C1: when Next has returned end-of-stream (and no error before), the rows
\* it returned are the upstream rows, ordered by the sort column in the
\* requested direction.
SortEquivalence ==
    (lastRet = "eos" /\ ~nextFailed) => (SameRows(out, given) /\ OrderedByKey(out))

\* C1 for upstream rows that hold no nil: the rows returned are the upstream
\* rows in sort order.
SortEquivalenceNoNil ==
    (lastRet = "eos" /\ ~nextFailed /\ NoNil(given))
        => (SameRows(out, given) /\ OrderedByKey(out))

\* C2: the partition buffer never holds more than chunkSize rows, and buffer
\* and merge heap together never hold more than chunkSize + number of runs.
BoundedMemory ==
    /\ Len(chunk) <= chunkSize
    /\ Len(chunk) + Len(mergeHeap.items) <= chunkSize + Len(tempFiles)

\* C2 witness: during setupMerge the last chunk is still held while the heap
\* fills, after more than one run was written.
BoundedMemoryWitness ==
    /\ pc = "open"
    /\ Len(chunk) >= 1
    /\ Len(mergeHeap.items) >= 1
    /\ Len(tempFiles) >= 2

HasItem(i) == \E a \in 1..Len(mergeHeap.items) : mergeHeap.items[a].fileIndex = i

\* C3: the heap holds at most one row per run; the row it holds for run i is
\* the record read last from run i; and between Next calls a run has no row
\* in the heap only when all its records have been read.
OneRowPerRun ==
    /\ \A a, b \in 1..Len(mergeHeap.items) :
          a # b => mergeHeap.items[a].fileIndex # mergeHeap.items[b].fileIndex
    /\ \A a \in 1..Len(mergeHeap.items) :
          LET i == mergeHeap.items[a].fileIndex
          IN  /\ readers[i + 1] >= 1
              /\ tempFiles[i + 1] \in DOMAIN disk =>
                    mergeHeap.items[a].row =
                        recordToRow(disk[tempFiles[i + 1]][readers[i + 1]])
    /\ (prepared /\ pc = "idle" /\ ~nextFailed /\ closeRets = <<>>) =>
          \A i \in 0..(Len(tempFiles) - 1) : ~HasItem(i) => AtEOF(i)

\* C3 witness: Next has returned a row and refilled the heap from the run of
\* that row, and the heap holds rows of two runs.
OneRowPerRunWitness ==
    /\ pc = "idle"
    /\ Len(out) >= 1
    /\ Len(mergeHeap.items) >= 2
    /\ \E i \in 1..Len(readers) : readers[i] >= 2

\* C4: every Close call returns no error, the first as well as the second,
\* before any Next as well as after (unless the environment failed an I/O
\* operation).
CloseIdempotent ==
    ~fault => \A k \in 1..Len(closeRets) : closeRets[k] = "nil"

\* C5: once Close has returned, whatever the upstream's Close returned, the
\* upstream is closed, every run file handle is closed and every run file is
\* deleted.
CleanupAfterClose ==
    Len(closeRets) >= 1 =>
        /\ srcFile = "closed"
        /\ \A h \in 1..Len(handles) : ~handles[h].open
        /\ \A i \in 1..Len(tempFiles) : tempFiles[i] \notin DOMAIN disk

(***************************************************************************)
(* CSVScan's typing of fields and FilterOp's comparisons.                  *)
(***************************************************************************)
\* Schema.ColumnIndex, from 0; -1 when the name is no column
ColumnIndex(columns, name) ==
    IF \E i \in 1..Len(columns) : columns[i] = name
    THEN (CHOOSE i \in 1..Len(columns) :
            columns[i] = name /\ \A j \in 1..(i - 1) : columns[j] # name) - 1
    ELSE 0 - 1

\* inferType: Int, else Float, else String; the empty string is a String.
inferType(val) ==
    IF val = <<>> THEN "String"
    ELSE IF ParseInt(val).ok THEN "Int"
    ELSE IF ParseFloat(val).ok THEN "Float"
    ELSE "String"

\* int64(f): truncation towards zero
TruncFloat(f) ==
    IF f[1] < 0 THEN 0 - ((0 - f[1]) \div f[2]) ELSE f[1] \div f[2]

\* A toInt64 that takes a text for the integer 0.
toInt64Lenient(x) ==
    CASE x.t = "int64" -> [ok |-> TRUE, v |-> x.v[1]]
      [] x.t = "float64" -> [ok |-> TRUE, v |-> TruncFloat(x.v)]
      [] x.t = "string" -> [ok |-> TRUE, v |-> 0]
      [] OTHER -> [ok |-> FALSE, v |-> 0]

toInt64(x) ==
    CASE x.t = "int64" -> [ok |-> TRUE, v |-> x.v[1]]
      [] x.t = "float64" -> [ok |-> TRUE, v |-> TruncFloat(x.v)]
      [] OTHER -> [ok |-> FALSE, v |-> 0]

toFloat64(x) ==
    CASE x.t = "float64" -> [ok |-> TRUE, v |-> x.v]
      [] x.t = "int64" -> [ok |-> TRUE, v |-> <<x.v[1], 1>>]
      [] OTHER -> [ok |-> FALSE, v |-> <<0, 1>>]

\* fmt.Sprintf("%v", x)
sprintV(x) ==
    CASE x.t = "int64" -> FormatInt(x.v[1])
      [] x.t = "float64" -> FormatFloat(x.v)
      [] x.t = "string" -> x.v
      [] OTHER -> NilText

\* A switch whose != case tests < only.
compareOrderedNeqLess(lt, gt, comp) ==
    CASE comp = "=" -> ~lt /\ ~gt
      [] comp = "<" -> lt
      [] comp = ">" -> gt
      [] comp = "<=" -> ~gt
      [] comp = ">=" -> ~lt
      [] comp = "!=" -> lt
      [] OTHER -> FALSE

\* compareInt64, compareFloat64 and compareString are one switch over the
\* comparator, on <, > and = of their operand type.
compareOrdered(lt, gt, comp) ==
    CASE comp = "=" -> ~lt /\ ~gt
      [] comp = "<" -> lt
      [] comp = ">" -> gt
      [] comp = "<=" -> ~gt
      [] comp = ">=" -> ~lt
      [] comp = "!=" -> lt \/ gt
      [] OTHER -> FALSE

compareInt64(left, comp, right) == compareOrdered(left < right, left > right, comp)

compareFloat64(left, comp, right) ==
    compareOrdered(RatLess(left, right), RatLess(right, left), comp)

compareString(left, comp, right) ==
    compareOrdered(StrLess(left, right), StrLess(right, left), comp)

\* compare: the row value's type decides how the literal is read.
compare(left, comp, right) ==
    CASE left.t = "int64" ->
            toInt64(right).ok /\ compareInt64(left.v[1], comp, toInt64(right).v)
      [] left.t = "float64" ->
            toFloat64(right).ok /\ compareFloat64(left.v, comp, toFloat64(right).v)
      [] left.t = "string" ->
            compareString(left.v, comp,
                          IF right.t = "string" THEN right.v ELSE sprintV(right))
      [] OTHER -> FALSE

\* BuildComparisonPredicate(c)(row), c = [ColumnIndex, Comparator, Value]
comparisonHolds(c, row) ==
    IF c.ColumnIndex < 0 \/ c.ColumnIndex >= Len(row) THEN FALSE
    ELSE compare(row[c.ColumnIndex + 1], c.Comparator, c.Value)

Comparators == {"=", "<", ">", "<=", ">=", "!="}

\* The row CSVScan.Next makes of a record, the column types being those
\* inferred from the first data record.
scanRow(record, first) ==
    [i \in 1..Len(record) |->
        IF i - 1 < Len(first) THEN parseValue(record[i], inferType(first[i]))
        ELSE StrV(record[i])]

(***************************************************************************)
(* The zone map: GenerateZoneMap over a CSV file, then CanPrune.           *)
(***************************************************************************)
\* Go maps are functions on their key set; a missing key reads as zero.
EmptyMap == [k \in {} |-> 0]
MapPut(m, k, x) == [c \in DOMAIN m \cup {k} |-> IF c = k THEN x ELSE m[c]]
MapDelete(m, k) == [c \in DOMAIN m \ {k} |-> m[c]]
MapGet(m, k) == IF k \in DOMAIN m THEN m[k] ELSE 0

\* The fields a record may hold, by column: "10", "50", "x" in the first
\* column and "5", "-20", "1.5" in the second.
ZoneFields(i) ==
    IF i = 1 THEN {<<49, 48>>, <<53, 48>>, <<120>>}
    ELSE {<<53>>, <<45, 50, 48>>, <<49, 46, 53>>}

\* The header rows: two columns, of different names or of the same name.
ZoneHeaders == {<<"a", "b">>, <<"a", "a">>}

\* The column names CanPrune is asked about; "c" is in no header.
ZoneColumns == {"a", "b", "c"}

\* The literals CanPrune is asked about.
ZoneLiterals == {0 - 10, 0 - 5, 5, 10, 30, 50, 60}

ZoneInit ==
    /\ OpsUnused
    /\ SortUnused
    /\ AggregateUnused
    /\ input = <<>>
    /\ inputEOS = FALSE
    /\ srcFile = "open"
    /\ fault = FALSE
    /\ given = <<>>
    /\ out = <<>>
    /\ lastRet = "none"
    /\ nextFailed = FALSE
    /\ closeRets = <<>>
    /\ header \in ZoneHeaders
    /\ \E n \in 0..MaxZoneRows :
          csvRows \in [1..n -> {<<x, y>> : x \in ZoneFields(1), y \in ZoneFields(2)}]
    /\ zmPc = "first"
    /\ rowCount = 0
    /\ isIntColumn = {}
    /\ minValues = EmptyMap
    /\ maxValues = EmptyMap
    /\ pruneCall = <<>>

\* The first data record: a column whose value parses as an integer is
\* tracked, with that value as its min and max.
RECURSIVE classifyFirstRow(_, _, _)
classifyFirstRow(st, firstRow, i) ==
    IF i > Len(firstRow) THEN st
    ELSE LET p == ParseInt(firstRow[i])
         IN  classifyFirstRow(
                IF i - 1 < Len(header) /\ p.ok
                THEN [isInt |-> st.isInt \cup {header[i]},
                      min |-> MapPut(st.min, header[i], p.v),
                      max |-> MapPut(st.max, header[i], p.v)]
                ELSE st,
                firstRow, i + 1)

\* A GenerateZoneMap that skips a value that is no integer and keeps the
\* column.
keepColumn(st, colName) == st

\* A value that is no integer: the column is deleted from the maps.
dropColumn(st, colName) ==
    [isInt |-> st.isInt \ {colName},
     min |-> MapDelete(st.min, colName),
     max |-> MapDelete(st.max, colName)]

\* A scan of a later record that stores each integer as the column's min.
RECURSIVE scanRecordLast(_, _, _)
scanRecordLast(st, record, i) ==
    IF i > Len(record) THEN st
    ELSE LET colName == header[i]
             p == ParseInt(record[i])
         IN  scanRecordLast(
                IF i - 1 >= Len(header) THEN st
                ELSE IF colName \notin st.isInt THEN st
                ELSE IF ~p.ok THEN dropColumn(st, colName)
                ELSE [isInt |-> st.isInt,
                      min |-> MapPut(st.min, colName, p.v),
                      max |-> IF p.v > MapGet(st.max, colName)
                              THEN MapPut(st.max, colName, p.v) ELSE st.max],
                record, i + 1)

\* A later record: each column still tracked is dropped on a value that is
\* no integer, else its min and max are widened.
RECURSIVE scanRecord(_, _, _)
scanRecord(st, record, i) ==
    IF i > Len(record) THEN st
    ELSE LET colName == header[i]
             p == ParseInt(record[i])
         IN  scanRecord(
                IF i - 1 >= Len(header) THEN st
                ELSE IF colName \notin st.isInt THEN st
                ELSE IF ~p.ok THEN dropColumn(st, colName)
                ELSE [isInt |-> st.isInt,
                      min |-> IF p.v < MapGet(st.min, colName)
                              THEN MapPut(st.min, colName, p.v) ELSE st.min,
                      max |-> IF p.v > MapGet(st.max, colName)
                              THEN MapPut(st.max, colName, p.v) ELSE st.max],
                record, i + 1)

\* GenerateZoneMap up to and including the first data record.
ZoneFirstRow ==
    /\ UNCHANGED opVars
    /\ zmPc = "first"
    /\ \/ /\ Fail                                     \* the Read fails
          /\ zmPc' = "error"
          /\ UNCHANGED <<rowCount, isIntColumn, minValues, maxValues>>
       \/ /\ csvRows = <<>>                           \* no data record
          /\ zmPc' = "done"
          /\ UNCHANGED <<rowCount, isIntColumn, minValues, maxValues, fault>>
       \/ /\ csvRows # <<>>
          /\ LET st == classifyFirstRow(
                          [isInt |-> {}, min |-> minValues, max |-> maxValues],
                          csvRows[1], 1)
             IN  /\ isIntColumn' = st.isInt
                 /\ minValues' = st.min
                 /\ maxValues' = st.max
          /\ rowCount' = 1
          /\ zmPc' = "scan"
          /\ UNCHANGED fault
    /\ UNCHANGED <<header, csvRows, pruneCall, aggVars>>
    /\ UNCHANGED <<input, inputEOS, srcFile, cfgVars, prepared, tempFiles,
                   mergeVars, exhausted, pc, chunk, setupIdx, disk, tempSeq,
                   out, lastRet, nextFailed, closeRets>>

\* GenerateZoneMap, one iteration of its loop over the remaining records.
ZoneScanRow ==
    /\ UNCHANGED opVars
    /\ zmPc = "scan"
    /\ \/ /\ Fail                                     \* the Read fails
          /\ zmPc' = "error"
          /\ UNCHANGED <<rowCount, isIntColumn, minValues, maxValues>>
       \/ /\ rowCount = Len(csvRows)                  \* io.EOF
          /\ zmPc' = "done"
          /\ UNCHANGED <<rowCount, isIntColumn, minValues, maxValues, fault>>
       \/ /\ rowCount < Len(csvRows)
          /\ LET st == scanRecord(
                          [isInt |-> isIntColumn, min |-> minValues, max |-> maxValues],
                          csvRows[rowCount + 1], 1)
             IN  /\ isIntColumn' = st.isInt
                 /\ minValues' = st.min
                 /\ maxValues' = st.max
          /\ rowCount' = rowCount + 1
          /\ UNCHANGED <<zmPc, fault>>
    /\ UNCHANGED <<header, csvRows, pruneCall, aggVars>>
    /\ UNCHANGED <<input, inputEOS, srcFile, cfgVars, prepared, tempFiles,
                   mergeVars, exhausted, pc, chunk, setupIdx, disk, tempSeq,
                   out, lastRet, nextFailed, closeRets>>

\* A CanPrune whose != case forgets that min and max must agree.
CanPruneNeqLoose(columnName, comp, value) ==
    IF columnName \notin DOMAIN minValues \/ columnName \notin DOMAIN maxValues
    THEN FALSE
    ELSE LET min == minValues[columnName]
             max == maxValues[columnName]
         IN  CASE comp = "=" -> value < min \/ value > max
               [] comp = "<" -> min >= value
               [] comp = "<=" -> min > value
               [] comp = ">" -> max <= value
               [] comp = ">=" -> max < value
               [] comp = "!=" -> min = value
               [] OTHER -> FALSE

\* ZoneMap.CanPrune over the maps GenerateZoneMap returned.
CanPrune(columnName, comp, value) ==
    IF columnName \notin DOMAIN minValues \/ columnName \notin DOMAIN maxValues
    THEN FALSE
    ELSE LET min == minValues[columnName]
             max == maxValues[columnName]
         IN  CASE comp = "=" -> value < min \/ value > max
               [] comp = "<" -> min >= value
               [] comp = "<=" -> min > value
               [] comp = ">" -> max <= value
               [] comp = ">=" -> max < value
               [] comp = "!=" -> min = max /\ min = value
               [] OTHER -> FALSE

\* A caller asks the finished zone map about one comparison.
ZoneCanPrune ==
    /\ UNCHANGED opVars
    /\ zmPc = "done"
    /\ \E c \in ZoneColumns, comp \in Comparators, v \in ZoneLiterals :
          pruneCall' = [column |-> c, comp |-> comp, value |-> v,
                        result |-> CanPrune(c, comp, v)]
    /\ zmPc' = "queried"
    /\ UNCHANGED <<header, csvRows, rowCount, isIntColumn, minValues, maxValues,
                   aggVars>>
    /\ UNCHANGED <<input, inputEOS, srcFile, cfgVars, prepared, tempFiles,
                   mergeVars, exhausted, pc, chunk, setupIdx, disk, tempSeq,
                   fault, out, lastRet, nextFailed, closeRets>>

ZoneStep == ZoneFirstRow \/ ZoneScanRow \/ ZoneCanPrune

SpecZone == ZoneInit /\ [][ZoneStep]_vars

(***************************************************************************)
(* Properties of the zone map.                                             *)
(***************************************************************************)
ZoneFinished == zmPc \in {"done", "queried"}

\* The rows a Filter over a Scan of the file emits for the comparison
\* (column, comp, value): the column is resolved by Schema.ColumnIndex.
FilterMatches(column, comp, value) ==
    {r \in 1..Len(csvRows) :
        comparisonHolds([ColumnIndex |-> ColumnIndex(header, column),
                         Comparator |-> comp, Value |-> IntV(value)],
                        scanRow(csvRows[r], csvRows[1]))}

DistinctNames == \A i, j \in 1..Len(header) : header[i] = header[j] => i = j

\* C6: when CanPrune answers true for a tracked column, a comparator and an
\* integer literal, no data row of the file satisfies the comparison, so a
\* Filter over a Scan of the file emits no row.
ZoneSoundness ==
    (zmPc = "queried" /\ pruneCall.result)
        => FilterMatches(pruneCall.column, pruneCall.comp, pruneCall.value) = {}

\* The same for the files whose header names every column differently.
ZoneSoundnessDistinctNames ==
    (zmPc = "queried" /\ pruneCall.result /\ DistinctNames)
        => FilterMatches(pruneCall.column, pruneCall.comp, pruneCall.value) = {}

ZoneSoundnessDistinctNamesWitness ==
    /\ zmPc = "queried"
    /\ DistinctNames
    /\ pruneCall.result
    /\ Len(csvRows) >= 2

\* The decision table of CanPrune for bounds (min, max) and literal v.
PruneTable(min, max, comp, v) ==
    \/ comp = "=" /\ (v < min \/ v > max)
    \/ comp = "<" /\ min >= v
    \/ comp = "<=" /\ min > v
    \/ comp = ">" /\ max <= v
    \/ comp = ">=" /\ max < v
    \/ comp = "!=" /\ min = v /\ max = v

\* C7: for a tracked column CanPrune answers by the decision table, for a
\* column that is not tracked it answers false; with min = 10 and max = 50,
\* (=, 5) is true, (=, 30) false, (<, 10) true, (>, 50) true, (!=, 10) false.
CanPruneTable ==
    zmPc = "queried" =>
        LET c == pruneCall.column
            op == pruneCall.comp
            v == pruneCall.value
            tracked == c \in DOMAIN minValues /\ c \in DOMAIN maxValues
        IN  /\ tracked => (pruneCall.result <=> PruneTable(minValues[c], maxValues[c], op, v))
            /\ ~tracked => ~pruneCall.result
            /\ (tracked /\ minValues[c] = 10 /\ maxValues[c] = 50) =>
                  /\ (op = "=" /\ v = 5) => pruneCall.result
                  /\ (op = "=" /\ v = 30) => ~pruneCall.result
                  /\ (op = "<" /\ v = 10) => pruneCall.result
                  /\ (op = ">" /\ v = 50) => pruneCall.result
                  /\ (op = "!=" /\ v = 10) => ~pruneCall.result

CanPruneTableWitness ==
    /\ zmPc = "queried"
    /\ pruneCall.column \in DOMAIN minValues
    /\ minValues[pruneCall.column] = 10
    /\ maxValues[pruneCall.column] = 50
    /\ pruneCall.comp = "!="
    /\ pruneCall.value = 10
    /\ ~pruneCall.result

\* The integers of column i over all data rows, when every one parses.
ColumnAllInt(i) == \A r \in 1..Len(csvRows) : ParseInt(csvRows[r][i]).ok
ColumnInts(i) == {ParseInt(csvRows[r][i]).v : r \in 1..Len(csvRows)}

\* C8: after GenerateZoneMap the keys of MinValues and of MaxValues are the
\* columns whose value parsed as an integer in the first data row and in
\* every later one, and min and max of a tracked column are the least and the
\* greatest value of that column over all rows.
TrackedExactly ==
    (ZoneFinished /\ csvRows # <<>>) =>
        /\ DOMAIN minValues = DOMAIN maxValues
        /\ \A c \in DOMAIN minValues : \E i \in 1..Len(header) : header[i] = c
        /\ \A i \in 1..Len(header) :
              /\ header[i] \in DOMAIN minValues <=> ColumnAllInt(i)
              /\ ColumnAllInt(i) =>
                    /\ minValues[header[i]] \in ColumnInts(i)
                    /\ maxValues[header[i]] \in ColumnInts(i)
                    /\ \A x \in ColumnInts(i) :
                          minValues[header[i]] <= x /\ x <= maxValues[header[i]]

\* The same for the files whose header names every column differently.
TrackedExactlyDistinctNames ==
    DistinctNames => TrackedExactly

\* a column dropped at the second row whose third row is an integer again
TrackedExactlyDistinctNamesWitness ==
    /\ ZoneFinished
    /\ DistinctNames
    /\ Len(csvRows) = 3
    /\ ParseInt(csvRows[1][1]).ok
    /\ ~ParseInt(csvRows[2][1]).ok
    /\ ParseInt(csvRows[3][1]).ok
    /\ ColumnAllInt(2)
    /\ minValues[header[2]] < maxValues[header[2]]

(***************************************************************************)
(* ScalarAggregateOp over an upstream operator.                            *)
(***************************************************************************)
RatAdd(a, b) == Rat(a[1] * b[2] + b[1] * a[2], a[2] * b[2])

\* math.MaxFloat64 and -math.MaxFloat64: beyond every float64 of the model
\* (RatLess orders <<1, 0>> above and <<-1, 0>> below every rational)
MaxFloat64 == <<1, 0>>
NegMaxFloat64 == <<0 - 1, 0>>

\* toNumericValue: int64 and float64 convert to float64, nothing else does
toNumericValue(val) ==
    CASE val.t = "int64" -> [ok |-> TRUE, v |-> <<val.v[1], 1>>]
      [] val.t = "float64" -> [ok |-> TRUE, v |-> val.v]
      [] OTHER -> [ok |-> FALSE, v |-> <<0, 1>>]

\* The state Next makes for each aggregate before its loop.
newAggregateState ==
    [count |-> 0, sum |-> <<0, 1>>, min |-> MaxFloat64, max |-> NegMaxFloat64,
     hasData |-> FALSE]

\* An updateState that keeps the last numeric value as the sum.
updateStateSumLast(state, agg, row) ==
    LET counted == [state EXCEPT !.count = state.count + 1]
    IN  IF agg.Type = "Count" /\ agg.ColumnIndex < 0
        THEN [counted EXCEPT !.hasData = TRUE]
        ELSE IF agg.ColumnIndex < 0 \/ agg.ColumnIndex >= Len(row)
        THEN counted
        ELSE LET num == toNumericValue(row[agg.ColumnIndex + 1])
             IN  IF ~num.ok THEN counted
                 ELSE [count |-> counted.count,
                       sum |-> num.v,
                       min |-> IF RatLess(num.v, state.min) THEN num.v ELSE state.min,
                       max |-> IF RatLess(state.max, num.v) THEN num.v ELSE state.max,
                       hasData |-> TRUE]

\* An updateState that counts only the rows whose value is numeric.
updateStateCountNumeric(state, agg, row) ==
    IF agg.Type = "Count" /\ agg.ColumnIndex < 0
    THEN [state EXCEPT !.count = state.count + 1, !.hasData = TRUE]
    ELSE IF agg.ColumnIndex < 0 \/ agg.ColumnIndex >= Len(row)
    THEN state
    ELSE LET num == toNumericValue(row[agg.ColumnIndex + 1])
         IN  IF ~num.ok THEN state
             ELSE [count |-> state.count + 1,
                   sum |-> RatAdd(state.sum, num.v),
                   min |-> IF RatLess(num.v, state.min) THEN num.v ELSE state.min,
                   max |-> IF RatLess(state.max, num.v) THEN num.v ELSE state.max,
                   hasData |-> TRUE]

\* updateState: the state after one more row
updateState(state, agg, row) ==
    LET counted == [state EXCEPT !.count = state.count + 1]
    IN  IF agg.Type = "Count" /\ agg.ColumnIndex < 0
        THEN [counted EXCEPT !.hasData = TRUE]
        ELSE IF agg.ColumnIndex < 0 \/ agg.ColumnIndex >= Len(row)
        THEN counted
        ELSE LET num == toNumericValue(row[agg.ColumnIndex + 1])
             IN  IF ~num.ok THEN counted
                 ELSE [count |-> counted.count,
                       sum |-> RatAdd(state.sum, num.v),
                       min |-> IF RatLess(num.v, state.min) THEN num.v ELSE state.min,
                       max |-> IF RatLess(state.max, num.v) THEN num.v ELSE state.max,
                       hasData |-> TRUE]

\* A finalizeState that reports Min and Max without asking for hasData.
finalizeStateNoData(state, agg) ==
    CASE agg.Type = "Count" -> IntV(state.count)
      [] agg.Type = "Sum" -> IF ~state.hasData THEN FloatV(<<0, 1>>) ELSE FloatV(state.sum)
      [] agg.Type = "Min" -> FloatV(state.min)
      [] agg.Type = "Max" -> FloatV(state.max)
      [] agg.Type = "Avg" ->
            IF state.count = 0 THEN NilV
            ELSE FloatV(Rat(state.sum[1], state.sum[2] * state.count))
      [] OTHER -> NilV

\* finalizeState: the value of one aggregate
finalizeState(state, agg) ==
    CASE agg.Type = "Count" -> IntV(state.count)
      [] agg.Type = "Sum" -> IF ~state.hasData THEN FloatV(<<0, 1>>) ELSE FloatV(state.sum)
      [] agg.Type = "Min" -> IF ~state.hasData THEN NilV ELSE FloatV(state.min)
      [] agg.Type = "Max" -> IF ~state.hasData THEN NilV ELSE FloatV(state.max)
      [] agg.Type = "Avg" ->
            IF state.count = 0 THEN NilV
            ELSE FloatV(Rat(state.sum[1], state.sum[2] * state.count))
      [] OTHER -> NilV

\* The values of the first column of the upstream rows.
AggValues == {IntV(0 - 2), IntV(4), FloatV(<<1, 2>>), NilV}

\* COUNT(*) and the five aggregates over column c.
AggregateList(c) ==
    <<[Type |-> "Count", ColumnIndex |-> 0 - 1],
      [Type |-> "Count", ColumnIndex |-> c],
      [Type |-> "Sum", ColumnIndex |-> c],
      [Type |-> "Min", ColumnIndex |-> c],
      [Type |-> "Max", ColumnIndex |-> c],
      [Type |-> "Avg", ColumnIndex |-> c]>>

\* NewScalarAggregateOp over an upstream of rows (value, "a"); the
\* aggregates are over the numeric column, the text column or no column.
AggInit ==
    /\ OpsUnused
    /\ SortUnused
    /\ ZoneMapUnused
    /\ \E n \in 0..MaxAggRows :
         \E vs \in [1..n -> AggValues] :
            given = [i \in 1..n |-> <<vs[i], StrV(<<97>>)>>]
    /\ input = given
    /\ inputEOS = FALSE
    /\ srcFile = "open"
    /\ fault = FALSE
    /\ out = <<>>
    /\ lastRet = "none"
    /\ nextFailed = FALSE
    /\ closeRets = <<>>
    /\ \E c \in 0..2 : aggregates = AggregateList(c)
    /\ computed = FALSE
    /\ resultRow = <<>>
    /\ aggPc = "idle"
    /\ states = <<>>

\* A Next that does not ask whether the result has been returned.
resultNeverReturned == FALSE

\* Next begins by asking whether the single result has been returned.
resultReturned == computed

sortIdle == <<cfgVars, prepared, tempFiles, mergeVars, exhausted, pc, chunk,
              setupIdx, disk, tempSeq>>

\* ScalarAggregateOp.Next is called: end of stream once the result has been
\* returned, else fresh states and into the loop.
AggNext ==
    /\ UNCHANGED opVars
    /\ aggPc = "idle"
    /\ closeRets = <<>>
    /\ IF resultReturned
       THEN /\ lastRet' = "eos"
            /\ UNCHANGED <<aggPc, states>>
       ELSE /\ states' = [i \in 1..Len(aggregates) |-> newAggregateState]
            /\ aggPc' = "loop"
            /\ UNCHANGED lastRet
    /\ UNCHANGED <<input, inputEOS, srcFile, fault, out, nextFailed, closeRets,
                   aggregates, computed, resultRow, sortIdle, zmVars>>

\* Next, one iteration of its loop: s.input.Next(), then either the error
\* is returned, or every state is updated, or the result row is made and
\* returned.
AggPull ==
    /\ UNCHANGED opVars
    /\ aggPc = "loop"
    /\ \/ /\ Fail
          /\ aggPc' = "idle"
          /\ states' = <<>>
          /\ lastRet' = "err"
          /\ nextFailed' = TRUE
          /\ UNCHANGED <<input, inputEOS, out, computed, resultRow>>
       \/ /\ input # <<>>
          /\ states' = [i \in 1..Len(aggregates) |->
                           updateState(states[i], aggregates[i], Head(input))]
          /\ input' = Tail(input)
          /\ UNCHANGED <<aggPc, inputEOS, fault, out, lastRet, nextFailed,
                         computed, resultRow>>
       \/ /\ input = <<>>
          /\ inputEOS' = TRUE
          /\ LET values == [i \in 1..Len(aggregates) |->
                               finalizeState(states[i], aggregates[i])]
             IN  /\ resultRow' = values
                 /\ out' = Append(out, values)
          /\ computed' = TRUE
          /\ states' = <<>>
          /\ aggPc' = "idle"
          /\ lastRet' = "row"
          /\ UNCHANGED <<input, fault, nextFailed>>
    /\ UNCHANGED <<srcFile, closeRets, aggregates, sortIdle, zmVars>>

\* ScalarAggregateOp.Close: the input's Close and nothing else.
AggClose ==
    /\ UNCHANGED opVars
    /\ aggPc = "idle"
    /\ Len(closeRets) < MaxCloses
    /\ \E ioerr \in BOOLEAN :
         /\ IF ioerr THEN Fail ELSE UNCHANGED fault
         /\ closeRets' = Append(closeRets, IF scanCloseFails(ioerr) THEN "err" ELSE "nil")
    /\ srcFile' = "closed"
    /\ UNCHANGED <<input, inputEOS, out, lastRet, nextFailed, aggVars,
                   sortIdle, zmVars>>

AggStep == AggNext \/ AggPull \/ AggClose

SpecAgg == AggInit /\ [][AggStep]_vars

(***************************************************************************)
(* Properties of ScalarAggregateOp.                                        *)
(***************************************************************************)
\* C9: ScalarAggregateOp returns one result row and no second one, the row
\* only after its upstream has returned end of stream, end of stream never
\* before the row, and every Next after the row returns end of stream.
ExactlyOneResult ==
    /\ [](/\ Len(out) <= 1
          /\ out # <<>> => (inputEOS /\ input = <<>> /\ computed)
          /\ lastRet = "eos" => out # <<>>
          /\ out # <<>> => (aggPc = "idle" /\ lastRet \in {"row", "eos"}))
    /\ [][out # <<>> => (out' = out /\ lastRet' \in {lastRet, "eos"})]_vars
    /\ [][(out # <<>> /\ closeRets = <<>> /\ closeRets' = <<>>) => lastRet' = "eos"]_vars

\* the row of an upstream of two or more rows, then end of stream
ExactlyOneResultWitness ==
    /\ Len(given) >= 2
    /\ Len(out) = 1
    /\ lastRet = "eos"

\* The value of an aggregate kind over no row at all.
EmptyValue(type) ==
    CASE type = "Count" -> IntV(0)
      [] type = "Sum" -> FloatV(<<0, 1>>)
      [] OTHER -> NilV

\* C10: over an empty upstream the result row holds Count = 0, Sum = 0.0 and
\* null for Min, Max and Avg.
EmptyUpstreamResult ==
    (given = <<>> /\ out # <<>>) =>
        /\ Len(out[1]) = Len(aggregates)
        /\ \A i \in 1..Len(aggregates) : out[1][i] = EmptyValue(aggregates[i].Type)

EmptyUpstreamResultWitness ==
    /\ given = <<>>
    /\ Len(out) = 1
    /\ inputEOS

(***************************************************************************)
(* HashAggregateOp over an upstream operator.                              *)
(***************************************************************************)
\* the longest upstream row sequence handed to HashAggregateOp
MaxHashRows == 4

\* The values of the group-by column: the texts "A", "B" and "C".
HashKeys == {StrV(<<65>>), StrV(<<66>>), StrV(<<67>>)}

\* buildGroupKey: the %v texts of the group-by values, a zero byte between
\* them; an index out of range adds nothing.
RECURSIVE buildGroupKey(_, _, _)
buildGroupKey(groupByIndices, row, i) ==
    IF i > Len(groupByIndices) THEN <<>>
    ELSE (IF i > 1 THEN <<0>> ELSE <<>>)
         \o (IF groupByIndices[i] >= 0 /\ groupByIndices[i] < Len(row)
             THEN sprintV(row[groupByIndices[i] + 1]) ELSE <<>>)
         \o buildGroupKey(groupByIndices, row, i + 1)

\* A new group whose states have taken the group's first row already, so
\* that computeGroups counts that row twice.
newGroupUpdated(groupByIndices, aggs, row) ==
    [keyValues |-> [i \in 1..Len(groupByIndices) |->
                       IF groupByIndices[i] >= 0 /\ groupByIndices[i] < Len(row)
                       THEN row[groupByIndices[i] + 1] ELSE NilV],
     states |-> [i \in 1..Len(aggs) |-> updateState(newAggregateState, aggs[i], row)]]

\* computeGroups, the group of a key seen for the first time
newGroup(groupByIndices, aggs, row) ==
    [keyValues |-> [i \in 1..Len(groupByIndices) |->
                       IF groupByIndices[i] >= 0 /\ groupByIndices[i] < Len(row)
                       THEN row[groupByIndices[i] + 1] ELSE NilV],
     states |-> [i \in 1..Len(aggs) |-> newAggregateState]]

\* A computeGroups that records a key each time it meets it.
keysAfterAlways(keys, key, exists) == Append(keys, key)

\* computeGroups records a key when it makes the key's group.
keysAfter(keys, key, exists) == IF exists THEN keys ELSE Append(keys, key)

\* The aggregate expressions of a HashAggregateOp: COUNT(*) and SUM of the
\* second column, or each of the aggregates over the second column.
HashAggregateLists ==
    {<<[Type |-> "Count", ColumnIndex |-> 0 - 1], [Type |-> "Sum", ColumnIndex |-> 1]>>,
     AggregateList(1)}

\* NewHashAggregateOp over an upstream of rows (key, i), i = 1, 2, ...:
\* GROUP BY the first column.
HashInit ==
    /\ SortUnused
    /\ ZoneMapUnused
    /\ AggregateUnused
    /\ limitOp = Unused
    /\ filterOp = Unused
    /\ projectOp = Unused
    /\ scanOp = Unused
    /\ cmpCall = Unused
    /\ planCall = Unused
    /\ sortPair = Unused
    /\ rowCmp = Unused
    /\ \E n \in 0..MaxHashRows :
         \E ks \in [1..n -> HashKeys] :
            given = [i \in 1..n |-> <<ks[i], IntV(i)>>]
    /\ input = given
    /\ inputEOS = FALSE
    /\ srcFile = "open"
    /\ fault = FALSE
    /\ out = <<>>
    /\ lastRet = "none"
    /\ nextFailed = FALSE
    /\ closeRets = <<>>
    /\ \E aggs \in HashAggregateLists :
          hashOp = [pc |-> "idle",
                    groupByIndices |-> <<0>>,
                    aggregates |-> aggs,
                    computed |-> FALSE,
                    groups |-> EmptyMap,
                    keys |-> <<>>,
                    keyIndex |-> 0]

hashOthers == <<srcFile, closeRets, sortIdle, zmVars, aggVars, limitOp,
                filterOp, projectOp, scanOp, cmpCall, planCall, sortPair, rowCmp>>

\* A Next that begins again with the first group after the end of stream.
HashEmitRewind(h) ==
    IF h.keyIndex >= Len(h.keys)
    THEN /\ hashOp' = [h EXCEPT !.pc = "idle", !.keyIndex = 0]
         /\ lastRet' = "eos"
         /\ UNCHANGED out
    ELSE LET group == h.groups[h.keys[h.keyIndex + 1]]
             values == group.keyValues \o
                       [i \in 1..Len(h.aggregates) |->
                           finalizeState(group.states[i], h.aggregates[i])]
         IN  /\ hashOp' = [h EXCEPT !.pc = "idle", !.keyIndex = h.keyIndex + 1]
             /\ out' = Append(out, values)
             /\ lastRet' = "row"

\* HashAggregateOp.Next from its computed check on: the next group's row,
\* or end of stream after the last group.
HashEmit(h) ==
    IF h.keyIndex >= Len(h.keys)
    THEN /\ hashOp' = [h EXCEPT !.pc = "idle"]
         /\ lastRet' = "eos"
         /\ UNCHANGED out
    ELSE LET group == h.groups[h.keys[h.keyIndex + 1]]
             values == group.keyValues \o
                       [i \in 1..Len(h.aggregates) |->
                           finalizeState(group.states[i], h.aggregates[i])]
         IN  /\ hashOp' = [h EXCEPT !.pc = "idle", !.keyIndex = h.keyIndex + 1]
             /\ out' = Append(out, values)
             /\ lastRet' = "row"

\* A Next that computes the groups at every call.
computedNever(h) == FALSE

\* HashAggregateOp.Next, its first test: computeGroups runs unless it has
\* returned without an error before.
computedAlready(h) == h.computed

\* HashAggregateOp.Next is called.
HashNext ==
    /\ hashOp.pc = "idle"
    /\ closeRets = <<>>
    /\ IF computedAlready(hashOp)
       THEN HashEmit(hashOp)
       ELSE /\ hashOp' = [hashOp EXCEPT !.pc = "compute"]
            /\ UNCHANGED <<out, lastRet>>
    /\ UNCHANGED <<input, inputEOS, fault, nextFailed, hashOthers>>

\* computeGroups, one iteration of its loop: h.input.Next(), then the error
\* is returned, or the row is added to its group, or (end of input) Next
\* goes on to emit the first group.
HashPull ==
    /\ hashOp.pc = "compute"
    /\ \/ /\ Fail
          /\ hashOp' = [hashOp EXCEPT !.pc = "idle"]
          /\ lastRet' = "err"
          /\ nextFailed' = TRUE
          /\ UNCHANGED <<input, inputEOS, out>>
       \/ /\ input # <<>>
          /\ LET row == Head(input)
                 key == buildGroupKey(hashOp.groupByIndices, row, 1)
                 exists == key \in DOMAIN hashOp.groups
                 group == IF exists THEN hashOp.groups[key]
                          ELSE newGroup(hashOp.groupByIndices, hashOp.aggregates, row)
                 updated == [group EXCEPT !.states =
                               [i \in 1..Len(hashOp.aggregates) |->
                                   updateState(group.states[i], hashOp.aggregates[i], row)]]
             IN  hashOp' = [hashOp EXCEPT
                               !.groups = MapPut(hashOp.groups, key, updated),
                               !.keys = keysAfter(hashOp.keys, key, exists)]
          /\ input' = Tail(input)
          /\ UNCHANGED <<inputEOS, fault, out, lastRet, nextFailed>>
       \/ /\ input = <<>>
          /\ inputEOS' = TRUE
          /\ HashEmit([hashOp EXCEPT !.computed = TRUE])
          /\ UNCHANGED <<input, fault, nextFailed>>
    /\ UNCHANGED hashOthers

\* HashAggregateOp.Close: the input's Close and nothing else.
HashClose ==
    /\ hashOp.pc = "idle"
    /\ Len(closeRets) < MaxCloses
    /\ \E ioerr \in BOOLEAN :
         /\ IF ioerr THEN Fail ELSE UNCHANGED fault
         /\ closeRets' = Append(closeRets, IF scanCloseFails(ioerr) THEN "err" ELSE "nil")
    /\ srcFile' = "closed"
    /\ UNCHANGED <<input, inputEOS, out, lastRet, nextFailed, hashOp, sortIdle,
                   zmVars, aggVars, limitOp, filterOp, projectOp, scanOp,
                   cmpCall, planCall, sortPair, rowCmp>>

HashStep == HashNext \/ HashPull \/ HashClose

SpecHash == HashInit /\ [][HashStep]_vars

(***************************************************************************)
(* Properties of HashAggregateOp.                                          *)
(***************************************************************************)
\* The members of seq, each once, in the order of their first occurrence.
RECURSIVE FirstOccurrences(_)
FirstOccurrences(seq) ==
    IF seq = <<>> THEN <<>>
    ELSE LET front == FirstOccurrences(SubSeq(seq, 1, Len(seq) - 1))
             last == seq[Len(seq)]
         IN  IF \E i \in 1..Len(front) : front[i] = last THEN front
             ELSE Append(front, last)

IsPrefix(a, b) == Len(a) <= Len(b) /\ \A i \in 1..Len(a) : a[i] = b[i]

\* the group keys of the upstream rows, and of the rows returned
GivenKeys == [i \in 1..Len(given) |-> given[i][1]]
OutKeys == [i \in 1..Len(out) |-> out[i][1]]

\* C11: HashAggregateOp emits one row per distinct group key, in the order
\* in which the keys first appeared upstream: at end of stream the keys of
\* the rows returned are the distinct upstream keys in first-occurrence
\* order, before that a prefix of them; keys B, A, B, C give B, A, C.
GroupsInFirstOccurrenceOrder ==
    /\ IsPrefix(OutKeys, FirstOccurrences(GivenKeys))
    /\ lastRet = "eos" => OutKeys = FirstOccurrences(GivenKeys)
    /\ (lastRet = "eos"
          /\ GivenKeys = <<StrV(<<66>>), StrV(<<65>>), StrV(<<66>>), StrV(<<67>>)>>)
       => OutKeys = <<StrV(<<66>>), StrV(<<65>>), StrV(<<67>>)>>

GroupsInFirstOccurrenceOrderWitness ==
    /\ lastRet = "eos"
    /\ GivenKeys = <<StrV(<<66>>), StrV(<<65>>), StrV(<<66>>), StrV(<<67>>)>>
    /\ Len(out) = 3

(***************************************************************************)
(* LimitOp over an upstream operator.                                      *)
(***************************************************************************)
\* the longest upstream row sequence handed to LimitOp
MaxLimitRows == 5
\* the largest limit and the largest offset of a LimitOp
MaxLimit == 3
MaxOffset == 3

\* NewLimitOffsetOp over an upstream of rows (i), i = 1, 2, ...
LimitInit ==
    /\ SortUnused
    /\ ZoneMapUnused
    /\ AggregateUnused
    /\ hashOp = Unused
    /\ filterOp = Unused
    /\ projectOp = Unused
    /\ scanOp = Unused
    /\ cmpCall = Unused
    /\ planCall = Unused
    /\ sortPair = Unused
    /\ rowCmp = Unused
    /\ \E n \in 0..MaxLimitRows : given = [i \in 1..n |-> <<IntV(i)>>]
    /\ input = given
    /\ inputEOS = FALSE
    /\ srcFile = "open"
    /\ fault = FALSE
    /\ out = <<>>
    /\ lastRet = "none"
    /\ nextFailed = FALSE
    /\ closeRets = <<>>
    /\ \E limit \in 0..MaxLimit, offset \in 0..MaxOffset :
          limitOp = [pc |-> "idle", limit |-> limit, offset |-> offset,
                     count |-> 0, skipped |-> 0]

limitOthers == <<srcFile, closeRets, sortIdle, zmVars, aggVars, hashOp,
                 filterOp, projectOp, scanOp, cmpCall, planCall, sortPair, rowCmp>>

\* LimitOp.Next is called.
LimitNext ==
    /\ limitOp.pc = "idle"
    /\ closeRets = <<>>
    /\ limitOp' = [limitOp EXCEPT !.pc = "run"]
    /\ UNCHANGED <<input, inputEOS, fault, out, lastRet, nextFailed, limitOthers>>

\* A LimitOp that skips one row more than the offset.
stillSkippingInclusive(l) == l.skipped <= l.offset

\* the condition of Next's OFFSET loop
stillSkipping(l) == l.skipped < l.offset

\* A LimitOp that returns one row more than its limit.
limitReachedLate(l) == l.count > l.limit

\* Next's check of the limit, after the OFFSET loop
limitReached(l) == l.count >= l.limit

\* LimitOp.Next, up to its next call of l.input.Next() and what it does with
\* the answer: an iteration of the OFFSET loop, or the check of the limit
\* and the pull of the row to return.
LimitRun ==
    /\ limitOp.pc = "run"
    /\ IF ~stillSkipping(limitOp) /\ limitReached(limitOp)
       THEN /\ limitOp' = [limitOp EXCEPT !.pc = "idle"]
            /\ lastRet' = "eos"
            /\ UNCHANGED <<input, inputEOS, fault, out, nextFailed>>
       ELSE \/ /\ Fail
               /\ limitOp' = [limitOp EXCEPT !.pc = "idle"]
               /\ lastRet' = "err"
               /\ nextFailed' = TRUE
               /\ UNCHANGED <<input, inputEOS, out>>
            \/ /\ input = <<>>
               /\ inputEOS' = TRUE
               /\ limitOp' = [limitOp EXCEPT !.pc = "idle"]
               /\ lastRet' = "eos"
               /\ UNCHANGED <<input, fault, out, nextFailed>>
            \/ /\ input # <<>>
               /\ input' = Tail(input)
               /\ IF stillSkipping(limitOp)
                  THEN /\ limitOp' = [limitOp EXCEPT !.skipped = limitOp.skipped + 1]
                       /\ UNCHANGED <<out, lastRet>>
                  ELSE /\ limitOp' = [limitOp EXCEPT !.pc = "idle",
                                                     !.count = limitOp.count + 1]
                       /\ out' = Append(out, Head(input))
                       /\ lastRet' = "row"
               /\ UNCHANGED <<inputEOS, fault, nextFailed>>
    /\ UNCHANGED limitOthers

\* LimitOp.Close: the input's Close and nothing else.
LimitClose ==
    /\ limitOp.pc = "idle"
    /\ Len(closeRets) < MaxCloses
    /\ \E ioerr \in BOOLEAN :
         /\ IF ioerr THEN Fail ELSE UNCHANGED fault
         /\ closeRets' = Append(closeRets, IF scanCloseFails(ioerr) THEN "err" ELSE "nil")
    /\ srcFile' = "closed"
    /\ UNCHANGED <<input, inputEOS, out, lastRet, nextFailed, limitOp, sortIdle,
                   zmVars, aggVars, hashOp, filterOp, projectOp, scanOp,
                   cmpCall, planCall, sortPair, rowCmp>>

LimitStep == LimitNext \/ LimitRun \/ LimitClose

SpecLimit == LimitInit /\ [][LimitStep]_vars

\* The smaller of two numbers.
Least(a, b) == IF a < b THEN a ELSE b

\* rows r(M+1) .. r(min(n, M+L)) of the upstream rows
LimitExpected ==
    SubSeq(given, limitOp.offset + 1,
           Least(Len(given), limitOp.offset + limitOp.limit))

\* C12: LimitOp with limit L and offset M over the rows r1..rn returns the
\* rows r(M+1) .. r(min(n, M+L)) in upstream order and then end of stream;
\* limit 2, offset 1 over five rows returns the second and the third.
LimitWindow ==
    /\ IsPrefix(out, LimitExpected)
    /\ lastRet = "eos" => out = LimitExpected
    /\ (lastRet = "eos" /\ Len(given) = 5 /\ limitOp.limit = 2 /\ limitOp.offset = 1)
       => out = <<given[2], given[3]>>

LimitWindowWitness ==
    /\ lastRet = "eos"
    /\ Len(given) = 5
    /\ limitOp.limit = 2
    /\ limitOp.offset = 1
    /\ Len(out) = 2

(***************************************************************************)
(* FilterOp over an upstream operator.                                     *)
(***************************************************************************)
\* the longest upstream row sequence handed to FilterOp
MaxFilterRows == 3
\* the most comparisons of a predicate
MaxComparisons == 2

\* The upstream rows of a FilterOp: an integer and a text.
FilterRows == {<<IntV(n), StrV(s)>> : n \in {1, 5}, s \in {<<97>>, <<98>>}}

\* The comparisons of a WHERE clause; the last names no column of the rows.
FilterComparisons ==
    {[ColumnIndex |-> 0, Comparator |-> ">", Value |-> IntV(2)],
     [ColumnIndex |-> 0, Comparator |-> "<=", Value |-> IntV(5)],
     [ColumnIndex |-> 1, Comparator |-> "=", Value |-> StrV(<<97>>)],
     [ColumnIndex |-> 2, Comparator |-> "=", Value |-> IntV(1)]}

\* A predicate that is satisfied by one comparison alone.
OrPredicate(predicates, row) ==
    \E i \in 1..Len(predicates) : comparisonHolds(predicates[i], row)

\* AndPredicate(predicates...)(row)
AndPredicate(predicates, row) ==
    \A i \in 1..Len(predicates) : comparisonHolds(predicates[i], row)

\* NewFilterOp over an upstream, the predicate the conjunction of comparisons.
FilterInit ==
    /\ SortUnused
    /\ ZoneMapUnused
    /\ AggregateUnused
    /\ hashOp = Unused
    /\ limitOp = Unused
    /\ projectOp = Unused
    /\ scanOp = Unused
    /\ cmpCall = Unused
    /\ planCall = Unused
    /\ sortPair = Unused
    /\ rowCmp = Unused
    /\ \E n \in 0..MaxFilterRows : given \in [1..n -> FilterRows]
    /\ input = given
    /\ inputEOS = FALSE
    /\ srcFile = "open"
    /\ fault = FALSE
    /\ out = <<>>
    /\ lastRet = "none"
    /\ nextFailed = FALSE
    /\ closeRets = <<>>
    /\ \E k \in 0..MaxComparisons :
         \E ps \in [1..k -> FilterComparisons] :
            filterOp = [pc |-> "idle", predicate |-> ps]

filterOthers == <<srcFile, closeRets, sortIdle, zmVars, aggVars, hashOp,
                  limitOp, projectOp, scanOp, cmpCall, planCall, sortPair, rowCmp>>

\* FilterOp.Next is called.
FilterNext ==
    /\ filterOp.pc = "idle"
    /\ closeRets = <<>>
    /\ filterOp' = [filterOp EXCEPT !.pc = "loop"]
    /\ UNCHANGED <<input, inputEOS, fault, out, lastRet, nextFailed, filterOthers>>

\* FilterOp.Next, one iteration of its loop: f.input.Next(), then the error
\* or the end of input is returned, or the row is returned if the predicate
\* holds of it and skipped if not.
FilterPull ==
    /\ filterOp.pc = "loop"
    /\ \/ /\ Fail
          /\ filterOp' = [filterOp EXCEPT !.pc = "idle"]
          /\ lastRet' = "err"
          /\ nextFailed' = TRUE
          /\ UNCHANGED <<input, inputEOS, out>>
       \/ /\ input = <<>>
          /\ inputEOS' = TRUE
          /\ filterOp' = [filterOp EXCEPT !.pc = "idle"]
          /\ lastRet' = "eos"
          /\ UNCHANGED <<input, fault, out, nextFailed>>
       \/ /\ input # <<>>
          /\ input' = Tail(input)
          /\ IF AndPredicate(filterOp.predicate, Head(input))
             THEN /\ filterOp' = [filterOp EXCEPT !.pc = "idle"]
                  /\ out' = Append(out, Head(input))
                  /\ lastRet' = "row"
             ELSE UNCHANGED <<filterOp, out, lastRet>>
          /\ UNCHANGED <<inputEOS, fault, nextFailed>>
    /\ UNCHANGED filterOthers

\* FilterOp.Close: the input's Close and nothing else.
FilterClose ==
    /\ filterOp.pc = "idle"
    /\ Len(closeRets) < MaxCloses
    /\ \E ioerr \in BOOLEAN :
         /\ IF ioerr THEN Fail ELSE UNCHANGED fault
         /\ closeRets' = Append(closeRets, IF scanCloseFails(ioerr) THEN "err" ELSE "nil")
    /\ srcFile' = "closed"
    /\ UNCHANGED <<input, inputEOS, out, lastRet, nextFailed, filterOp, sortIdle,
                   zmVars, aggVars, hashOp, limitOp, projectOp, scanOp,
                   cmpCall, planCall, sortPair, rowCmp>>

FilterStep == FilterNext \/ FilterPull \/ FilterClose

SpecFilter == FilterInit /\ [][FilterStep]_vars

\* whether the row satisfies every comparison of the filter
SatisfiesAll(row) ==
    \A c \in {filterOp.predicate[i] : i \in 1..Len(filterOp.predicate)} :
        IF c.ColumnIndex < 0 \/ c.ColumnIndex >= Len(row) THEN FALSE
        ELSE compare(row[c.ColumnIndex + 1], c.Comparator, c.Value)

\* The subsequence of the rows that satisfy every comparison.
RECURSIVE Satisfying(_)
Satisfying(rows) ==
    IF rows = <<>> THEN <<>>
    ELSE (IF SatisfiesAll(Head(rows)) THEN <<Head(rows)>> ELSE <<>>)
         \o Satisfying(Tail(rows))

\* C13: FilterOp returns the upstream rows that satisfy every comparison of
\* the predicate, in upstream order, each once and unmodified, and end of
\* stream when upstream ends: the rows returned are a prefix of that
\* subsequence, all of it at end of stream, and the rows not yet pulled
\* are the only ones that may still follow.
FilterSubsequence ==
    /\ IsPrefix(out, Satisfying(given))
    /\ lastRet = "eos" => (out = Satisfying(given) /\ inputEOS)
    /\ filterOp.pc = "idle" =>
          out = Satisfying(SubSeq(given, 1, Len(given) - Len(input)))

\* a filter that dropped a row between two rows it returned
FilterSubsequenceWitness ==
    /\ lastRet = "eos"
    /\ Len(given) = 3
    /\ Len(out) = 2
    /\ out[1] = given[1]
    /\ out[2] = given[3]
    /\ Len(filterOp.predicate) = 2

(***************************************************************************)
(* compare: one comparison of a WHERE clause on one row value.             *)
(***************************************************************************)
\* The row values compared: 3, 4, -1, 3.5, 3.0, -0.5, "5", "abc", "3",
\* "3.5", "" and nil.
CompareLefts ==
    {IntV(3), IntV(4), IntV(0 - 1),
     FloatV(<<7, 2>>), FloatV(<<3, 1>>), FloatV(<<0 - 1, 2>>),
     StrV(<<53>>), StrV(<<97, 98, 99>>), StrV(<<51>>), StrV(<<51, 46, 53>>),
     StrV(<<>>), NilV}

\* The literals extractValue makes: 3, 4, 5, -1, 3.5, 3.0, "abc", "5", "3", "".
CompareRights ==
    {IntV(3), IntV(4), IntV(5), IntV(0 - 1), FloatV(<<7, 2>>), FloatV(<<3, 1>>),
     StrV(<<97, 98, 99>>), StrV(<<53>>), StrV(<<51>>), StrV(<<>>)}

CompareInit ==
    /\ SortUnused
    /\ ZoneMapUnused
    /\ AggregateUnused
    /\ hashOp = Unused
    /\ limitOp = Unused
    /\ filterOp = Unused
    /\ projectOp = Unused
    /\ scanOp = Unused
    /\ planCall = Unused
    /\ sortPair = Unused
    /\ rowCmp = Unused
    /\ input = <<>>
    /\ inputEOS = FALSE
    /\ srcFile = "open"
    /\ fault = FALSE
    /\ given = <<>>
    /\ out = <<>>
    /\ lastRet = "none"
    /\ nextFailed = FALSE
    /\ closeRets = <<>>
    /\ cmpCall = [pc |-> "ready"]

\* The predicates BuildComparisonPredicate makes of one literal and each of
\* the six comparators are applied to a row that holds one value.
CompareCall ==
    /\ cmpCall.pc = "ready"
    /\ \E left \in CompareLefts, right \in CompareRights :
          cmpCall' = [pc |-> "done", left |-> left, right |-> right,
                      result |-> [c \in Comparators |->
                          comparisonHolds([ColumnIndex |-> 0, Comparator |-> c,
                                           Value |-> right], <<left>>)]]
    /\ UNCHANGED <<sortVars, zmVars, aggVars, hashOp, limitOp, filterOp,
                   projectOp, scanOp, planCall, sortPair, rowCmp>>

SpecCompare == CompareInit /\ [][CompareCall]_vars

(***************************************************************************)
(* Properties of compare.                                                  *)
(***************************************************************************)
IsNumber(x) == x.t \in {"int64", "float64"}

\* The operands' types differ and integer-to-float promotion does not
\* reconcile them.
Unreconciled(left, right) ==
    \/ left.t = "nil"
    \/ left.t = "string" /\ IsNumber(right)
    \/ IsNumber(left) /\ right.t = "string"

AsRat(x) == IF x.t = "int64" THEN <<x.v[1], 1>> ELSE x.v

\* C15: an integer row value against a float literal is promoted to float
\* and the two are compared numerically, for all six comparators; 3 against
\* 3.5: = is false and < is true.
IntPromotedToFloat ==
    (cmpCall.pc = "done" /\ cmpCall.left.t = "int64" /\ cmpCall.right.t = "float64")
        => LET l == AsRat(cmpCall.left)
               r == AsRat(cmpCall.right)
           IN  /\ cmpCall.result["="] = (l = r)
               /\ cmpCall.result["!="] = (l # r)
               /\ cmpCall.result["<"] = RatLess(l, r)
               /\ cmpCall.result[">"] = RatLess(r, l)
               /\ cmpCall.result["<="] = ~RatLess(r, l)
               /\ cmpCall.result[">="] = ~RatLess(l, r)

\* C16: for every row value and every literal, != is satisfied exactly when
\* = is not.
NeqIsNotEq ==
    cmpCall.pc = "done" => (cmpCall.result["!="] <=> ~cmpCall.result["="])

\* C16 as amended: != is satisfied exactly when = is not, unless the row
\* value is nil or a number compared against a text literal; then neither
\* is satisfied.
NeqIsNotEqWhenCompared ==
    cmpCall.pc = "done" =>
        IF cmpCall.left.t = "nil" \/ (IsNumber(cmpCall.left) /\ cmpCall.right.t = "string")
        THEN ~cmpCall.result["!="] /\ ~cmpCall.result["="]
        ELSE cmpCall.result["!="] <=> ~cmpCall.result["="]

NeqIsNotEqWhenComparedWitness ==
    /\ cmpCall.pc = "done"
    /\ cmpCall.left = IntV(4)
    /\ cmpCall.right = IntV(3)
    /\ cmpCall.result["!="]
    /\ ~cmpCall.result["="]

(***************************************************************************)
(* ProjectOp over an upstream operator.                                    *)
(***************************************************************************)
\* the longest upstream row sequence handed to ProjectOp
MaxProjectRows == 3
\* the most columns of a projection
MaxProjectColumns == 2

\* The column indices of a projection; -1 and 2 are out of the rows' range.
ProjectIndices == {0 - 1, 0, 1, 2}

\* A ProjectOp that never passes rows through.
neverPassthrough(columnIndices) == FALSE

\* NewProjectOp: no column list, or an empty one, is SELECT *
isPassthrough(columnIndices) == Len(columnIndices) = 0

\* NewProjectOp, the output schema: the input's, or the selected columns'
\* names and types (the empty name and the zero DataType, Int, for an index
\* out of range).
projectSchema(inputSchema, columnIndices) ==
    IF isPassthrough(columnIndices) THEN inputSchema
    ELSE [Columns |-> [i \in 1..Len(columnIndices) |->
                          IF columnIndices[i] >= 0
                             /\ columnIndices[i] < Len(inputSchema.Columns)
                          THEN inputSchema.Columns[columnIndices[i] + 1] ELSE ""],
          Types |-> [i \in 1..Len(columnIndices) |->
                          IF columnIndices[i] >= 0
                             /\ columnIndices[i] < Len(inputSchema.Columns)
                          THEN inputSchema.Types[columnIndices[i] + 1] ELSE "Int"]]

\* The schema of the upstream of a ProjectOp.
ProjectInputSchema == [Columns |-> <<"id", "name">>, Types |-> <<"Int", "String">>]

\* NewProjectOp over an upstream of rows (i, "a"), i = 1, 2, ...
ProjectInit ==
    /\ SortUnused
    /\ ZoneMapUnused
    /\ AggregateUnused
    /\ hashOp = Unused
    /\ limitOp = Unused
    /\ filterOp = Unused
    /\ scanOp = Unused
    /\ cmpCall = Unused
    /\ planCall = Unused
    /\ sortPair = Unused
    /\ rowCmp = Unused
    /\ \E n \in 0..MaxProjectRows : given = [i \in 1..n |-> <<IntV(i), StrV(<<97>>)>>]
    /\ input = given
    /\ inputEOS = FALSE
    /\ srcFile = "open"
    /\ fault = FALSE
    /\ out = <<>>
    /\ lastRet = "none"
    /\ nextFailed = FALSE
    /\ closeRets = <<>>
    /\ \E k \in 0..MaxProjectColumns :
         \E cs \in [1..k -> ProjectIndices] :
            projectOp = [pc |-> "idle",
                         columnIndices |-> cs,
                         outputSchema |-> projectSchema(ProjectInputSchema, cs),
                         passthrough |-> isPassthrough(cs)]

\* ProjectOp.Next: one p.input.Next(); its error or end of stream is
\* returned as it is, its row unchanged in passthrough mode and else as a
\* new row of the selected values.
ProjectNext ==
    /\ projectOp.pc = "idle"
    /\ closeRets = <<>>
    /\ \/ /\ Fail
          /\ lastRet' = "err"
          /\ nextFailed' = TRUE
          /\ UNCHANGED <<input, inputEOS, out>>
       \/ /\ input = <<>>
          /\ inputEOS' = TRUE
          /\ lastRet' = "eos"
          /\ UNCHANGED <<input, fault, out, nextFailed>>
       \/ /\ input # <<>>
          /\ input' = Tail(input)
          /\ LET row == Head(input)
                 values == [i \in 1..Len(projectOp.columnIndices) |->
                               IF projectOp.columnIndices[i] >= 0
                                  /\ projectOp.columnIndices[i] < Len(row)
                               THEN row[projectOp.columnIndices[i] + 1] ELSE NilV]
             IN  out' = Append(out, IF projectOp.passthrough THEN row ELSE values)
          /\ lastRet' = "row"
          /\ UNCHANGED <<inputEOS, fault, nextFailed>>
    /\ UNCHANGED <<srcFile, closeRets, projectOp, sortIdle, zmVars, aggVars,
                   hashOp, limitOp, filterOp, scanOp, cmpCall, planCall, sortPair, rowCmp>>

\* ProjectOp.Close: the input's Close and nothing else.
ProjectClose ==
    /\ projectOp.pc = "idle"
    /\ Len(closeRets) < MaxCloses
    /\ \E ioerr \in BOOLEAN :
         /\ IF ioerr THEN Fail ELSE UNCHANGED fault
         /\ closeRets' = Append(closeRets, IF scanCloseFails(ioerr) THEN "err" ELSE "nil")
    /\ srcFile' = "closed"
    /\ UNCHANGED <<input, inputEOS, out, lastRet, nextFailed, projectOp, sortIdle,
                   zmVars, aggVars, hashOp, limitOp, filterOp, scanOp,
                   cmpCall, planCall, sortPair, rowCmp>>

ProjectStep == ProjectNext \/ ProjectClose

SpecProject == ProjectInit /\ [][ProjectStep]_vars

\* The value a projection takes at index idx of the row: null out of range.
ValueAt(row, idx) ==
    IF idx \in 0..(Len(row) - 1) THEN row[idx + 1] ELSE NilV

\* C17: ProjectOp with an empty column list returns every upstream row
\* unchanged and reports the upstream schema; with the column list i1..ik
\* every returned row has k values, value j the upstream row's value at
\* index ij or null when ij is out of range; rows are returned one for one
\* in upstream order.
ProjectedRows ==
    /\ Len(out) = Len(given) - Len(input)
    /\ lastRet = "eos" => Len(out) = Len(given)
    /\ IF projectOp.columnIndices = <<>>
       THEN /\ projectOp.outputSchema = ProjectInputSchema
            /\ \A r \in 1..Len(out) : out[r] = given[r]
       ELSE \A r \in 1..Len(out) :
               /\ Len(out[r]) = Len(projectOp.columnIndices)
               /\ \A j \in 1..Len(projectOp.columnIndices) :
                     out[r][j] = ValueAt(given[r], projectOp.columnIndices[j])

\* two rows projected on (name, an index out of range)
ProjectedRowsWitness ==
    /\ lastRet = "eos"
    /\ Len(out) = 2
    /\ projectOp.columnIndices = <<1, 2>>
    /\ out[2] = <<StrV(<<97>>), NilV>>

(***************************************************************************)
(* CSVScan over a CSV file.                                                *)
(***************************************************************************)
\* the most data records of a CSV file handed to NewCSVScan
MaxScanRows == 3

\* The fields a record may hold, by column: "10", "1.5", "x" or "" in the
\* first column and "7" or "y" in the second.
ScanFields(i) ==
    IF i = 1 THEN {<<49, 48>>, <<49, 46, 53>>, <<120>>, <<>>}
    ELSE {<<55>>, <<121>>}

\* A nil []string; a record the reader returns has a field or more.
NoRecord == <<>>

\* NewCSVScan has opened the file, read the header, read the first data
\* record (none in a file of a header only) and inferred the column types
\* from it.
ScanInit ==
    /\ SortUnused
    /\ AggregateUnused
    /\ hashOp = Unused
    /\ limitOp = Unused
    /\ filterOp = Unused
    /\ projectOp = Unused
    /\ cmpCall = Unused
    /\ planCall = Unused
    /\ sortPair = Unused
    /\ rowCmp = Unused
    /\ input = <<>>
    /\ inputEOS = FALSE
    /\ srcFile = "open"
    /\ fault = FALSE
    /\ given = <<>>
    /\ out = <<>>
    /\ lastRet = "none"
    /\ nextFailed = FALSE
    /\ closeRets = <<>>
    /\ header = <<"a", "b">>
    /\ \E n \in 0..MaxScanRows :
          csvRows \in [1..n -> {<<x, y>> : x \in ScanFields(1), y \in ScanFields(2)}]
    /\ zmPc = "unused"
    /\ rowCount = 0
    /\ isIntColumn = {}
    /\ minValues = <<>>
    /\ maxValues = <<>>
    /\ pruneCall = <<>>
    /\ scanOp = [pc |-> "idle",
                 schema |-> [Columns |-> header,
                             Types |-> [i \in 1..Len(header) |->
                                           IF csvRows # <<>>
                                           THEN inferType(csvRows[1][i])
                                           ELSE "String"]],
                 firstRow |-> IF csvRows # <<>> THEN csvRows[1] ELSE NoRecord,
                 firstRowReturned |-> FALSE,
                 read |-> IF csvRows # <<>> THEN 1 ELSE 0]

\* A CSVScan that never returns the buffered record.
returnBufferedNever(s) == FALSE

\* Next returns the buffered first record if it has not yet.
returnBuffered(s) == ~s.firstRowReturned /\ s.firstRow # NoRecord

\* CSVScan.Next, the row made of a record by the types of the schema
scanValues(s, record) ==
    [i \in 1..Len(record) |->
        IF i - 1 < Len(s.schema.Types) THEN parseValue(record[i], s.schema.Types[i])
        ELSE StrV(record[i])]

scanOthers == <<input, inputEOS, given, header, csvRows, zmPc, rowCount,
                isIntColumn, minValues, maxValues, pruneCall, sortIdle, aggVars,
                hashOp, limitOp, filterOp, projectOp, cmpCall, planCall, sortPair, rowCmp>>

\* CSVScan.Next: the buffered first record, or the next record the reader
\* reads, as a row; end of stream at the end of the file; the error of a
\* read that fails.
ScanNext ==
    /\ scanOp.pc = "idle"
    /\ closeRets = <<>>
    /\ IF returnBuffered(scanOp)
       THEN /\ scanOp' = [scanOp EXCEPT !.firstRowReturned = TRUE]
            /\ out' = Append(out, scanValues(scanOp, scanOp.firstRow))
            /\ lastRet' = "row"
            /\ UNCHANGED <<fault, nextFailed>>
       ELSE \/ /\ Fail
               /\ lastRet' = "err"
               /\ nextFailed' = TRUE
               /\ UNCHANGED <<scanOp, out>>
            \/ /\ scanOp.read = Len(csvRows)
               /\ lastRet' = "eos"
               /\ UNCHANGED <<scanOp, out, fault, nextFailed>>
            \/ /\ scanOp.read < Len(csvRows)
               /\ scanOp' = [scanOp EXCEPT !.read = scanOp.read + 1]
               /\ out' = Append(out, scanValues(scanOp, csvRows[scanOp.read + 1]))
               /\ lastRet' = "row"
               /\ UNCHANGED <<fault, nextFailed>>
    /\ UNCHANGED <<srcFile, closeRets, scanOthers>>

\* CSVScan.Close: s.file.Close(), s.file being never nil.
ScanClose ==
    /\ scanOp.pc = "idle"
    /\ Len(closeRets) < MaxCloses
    /\ \E ioerr \in BOOLEAN :
         /\ IF ioerr THEN Fail ELSE UNCHANGED fault
         /\ closeRets' = Append(closeRets, IF scanCloseFails(ioerr) THEN "err" ELSE "nil")
    /\ srcFile' = "closed"
    /\ UNCHANGED <<scanOp, out, lastRet, nextFailed, scanOthers>>

ScanStep == ScanNext \/ ScanClose

SpecScan == ScanInit /\ [][ScanStep]_vars

(***************************************************************************)
(* Properties of CSVScan.                                                  *)
(***************************************************************************)
\* The type the first data record fixes for column i: integer if the value
\* parses as an integer, else float if it parses as a float, else text; an
\* empty value is text, and so is every column of a file without records.
FixedType(i) ==
    IF csvRows = <<>> \/ csvRows[1][i] = <<>> THEN "string"
    ELSE IF ParseInt(csvRows[1][i]).ok THEN "int64"
    ELSE IF ParseFloat(csvRows[1][i]).ok THEN "float64"
    ELSE "string"

\* The text of a value, read back as the field it was made of: a text is
\* its field, a number stands for any field that parses to it.
MadeOf(value, field) ==
    CASE value.t = "string" -> value.v = field
      [] value.t = "int64" ->
            IF ParseInt(field).ok THEN value.v[1] = ParseInt(field).v
            ELSE value.v[1] = 0
      [] value.t = "float64" ->
            IF ParseFloat(field).ok THEN value.v = ParseFloat(field).v
            ELSE value.v = <<0, 1>>
      [] OTHER -> FALSE

\* C18: CSVScan returns the data rows in file order, each once: the r-th row
\* returned is made of the r-th data record (the first Next returns the
\* buffered first record), end of stream comes after the last record and
\* not before, and a file of a header only gives end of stream at once.
ScanInFileOrder ==
    /\ Len(out) <= Len(csvRows)
    /\ \A r \in 1..Len(out) :
          /\ Len(out[r]) = Len(csvRows[r])
          /\ \A i \in 1..Len(out[r]) : MadeOf(out[r][i], csvRows[r][i])
    /\ lastRet = "eos" => Len(out) = Len(csvRows)
    /\ lastRet = "row" => scanOp.firstRowReturned
    /\ (csvRows = <<>> /\ lastRet # "none" /\ ~fault) => lastRet = "eos"

\* three different records returned, then end of stream
ScanInFileOrderWitness ==
    /\ lastRet = "eos"
    /\ Len(out) = 3
    /\ csvRows[1] # csvRows[2]
    /\ csvRows[2] # csvRows[3]
    /\ csvRows[1] # csvRows[3]

\* C19: the type of each column is fixed by the first data record and never
\* changes: every value of every row returned has the fixed type of its
\* column, a later value that does not parse as the fixed numeric type is 0
\* or 0.0, and neither the row nor the scan fails for it.
ScanTypesFixed ==
    /\ \A i \in 1..Len(header) :
          scanOp.schema.Types[i] =
             (CASE FixedType(i) = "int64" -> "Int"
                [] FixedType(i) = "float64" -> "Float"
                [] OTHER -> "String")
    /\ \A r \in 1..Len(out) : \A i \in 1..Len(out[r]) :
          /\ out[r][i].t = FixedType(i)
          /\ (FixedType(i) = "int64" /\ ~ParseInt(csvRows[r][i]).ok)
                => out[r][i] = IntV(0)
          /\ (FixedType(i) = "float64" /\ ~ParseFloat(csvRows[r][i]).ok)
                => out[r][i] = FloatV(<<0, 1>>)
    /\ ~fault => (lastRet # "err" /\ Len(out) = scanOp.read - (IF returnBuffered(scanOp) THEN 1 ELSE 0))

\* an integer column whose second value is "x" and another whose third
\* value is "y"
ScanTypesFixedWitness ==
    /\ lastRet = "eos"
    /\ Len(out) = 3
    /\ csvRows[1][1] = <<49, 48>>
    /\ csvRows[2][1] = <<120>>
    /\ out[2][1] = IntV(0)
    /\ csvRows[1][2] = <<55>>
    /\ csvRows[3][2] = <<121>>
    /\ out[3][2] = IntV(0)

(***************************************************************************)
(* ParseAndPlan: from the parsed SELECT statement to the operator tree.    *)
(***************************************************************************)
\* the most expressions of a SELECT list
MaxSelectExprs == 2

\* The schema of the CSVScan of the file named in FROM.
PlanSchema == [Columns |-> <<"a", "b">>, Types |-> <<"Int", "String">>]

\* The column names a query uses; the file has no column "zz".
PlanNames == {"a", "b", "zz"}

\* The expressions of a SELECT list: *, a column, COUNT(*), SUM(column).
SelectExprs ==
    {[kind |-> "star", func |-> "", name |-> ""]}
    \cup {[kind |-> "col", func |-> "", name |-> n] : n \in PlanNames}
    \cup {[kind |-> "func", func |-> "COUNT", name |-> "*"]}
    \cup {[kind |-> "func", func |-> "SUM", name |-> n] : n \in {"a", "zz"}}

\* The clauses a query may lack are sequences of length 0 or 1.
Optional(S) == {<<>>} \cup {<<x>> : x \in S}

\* The parsed SELECT statements.
PlanQueries ==
    [selectExprs : UNION {[1..k -> SelectExprs] : k \in 1..MaxSelectExprs},
     where : Optional({[name |-> n, comp |-> ">", value |-> IntV(1)] : n \in {"a", "zz"}}),
     groupBy : Optional({"a", "zz"}),
     orderBy : Optional({[name |-> n, desc |-> FALSE] : n \in {"a", "zz"}}),
     limit : Optional({[ok |-> TRUE, val |-> 2], [ok |-> FALSE, val |-> 0]})]

\* parseAggregateFunc: the aggregate of a function call; the column index
\* is that of the argument's name, -1 for * and for a name the schema lacks.
parseAggregateFunc(fn, sch) ==
    LET colIdx == IF fn.name = "*" THEN 0 - 1 ELSE ColumnIndex(sch.Columns, fn.name)
    IN  [Type |-> IF fn.func = "COUNT" THEN "Count" ELSE "Sum",
         ColumnIndex |-> colIdx,
         Alias |-> IF colIdx >= 0 /\ colIdx < Len(sch.Columns)
                   THEN <<fn.func, sch.Columns[colIdx + 1]>>
                   ELSE <<fn.func, "*">>]

\* parseSelectExprs: the aggregates, the column indices of the projection
\* and whether there is an aggregate; a column the schema lacks is left out
\* and * empties the projection.
RECURSIVE parseSelectExprs(_, _)
parseSelectExprs(exprs, sch) ==
    IF exprs = <<>>
    THEN [aggregates |-> <<>>, columns |-> <<>>, hasAggregates |-> FALSE,
          isSelectStar |-> FALSE]
    ELSE LET front == parseSelectExprs(SubSeq(exprs, 1, Len(exprs) - 1), sch)
             e == exprs[Len(exprs)]
             colIdx == ColumnIndex(sch.Columns, e.name)
         IN  CASE e.kind = "star" -> [front EXCEPT !.isSelectStar = TRUE]
               [] e.kind = "func" ->
                     [front EXCEPT !.hasAggregates = TRUE,
                                   !.aggregates = Append(@, parseAggregateFunc(e, sch))]
               [] OTHER ->
                     IF colIdx >= 0
                     THEN [front EXCEPT !.columns = Append(@, colIdx)]
                     ELSE front

\* The column names of the aggregate operator's schema: the GROUP BY
\* columns (the empty name for an index out of range), then the aliases of
\* the aggregates.  A name is a tuple: <<"a">> for the column a of the file,
\* <<"SUM", "a">> for the alias SUM(a).
aggregateColumns(sch, groupByIndices, aggs) ==
    [i \in 1..Len(groupByIndices) |->
        IF groupByIndices[i] >= 0 /\ groupByIndices[i] < Len(sch.Columns)
        THEN <<sch.Columns[groupByIndices[i] + 1]>> ELSE <<"">>]
    \o [i \in 1..Len(aggs) |-> aggs[i].Alias]

\* A planner that puts the limit under the sort.
wireLimitFirst(scan, filters, aggregate, sort, limit, project) ==
    scan \o filters \o aggregate \o limit \o sort \o project

\* The steps 1 to 6 of ParseAndPlan, each one wrapping the operator built
\* so far: the tree from the scan upwards.
wire(scan, filters, aggregate, sort, limit, project) ==
    scan \o filters \o aggregate \o sort \o limit \o project

\* ParseAndPlan after the statement is parsed and the scan is made: the
\* error it returns, or the operators of the tree from the scan upwards.
\* The LIMIT clause of the query is what parseLimit makes of it: a value,
\* or an error for a row count that is no integer literal.
ParseAndPlan(q) ==
    LET whereBad == q.where # <<>> /\ ColumnIndex(PlanSchema.Columns, q.where[1].name) < 0
        filters == IF q.where = <<>> THEN <<>>
                   ELSE <<[op |-> "Filter",
                           arg |-> <<ColumnIndex(PlanSchema.Columns, q.where[1].name)>>]>>
        sel == parseSelectExprs(q.selectExprs, PlanSchema)
        columns == IF sel.isSelectStar THEN <<>> ELSE sel.columns
        groupByIndices == [i \in 1..Len(q.groupBy) |->
                              ColumnIndex(PlanSchema.Columns, q.groupBy[i])]
        aggregate == IF ~sel.hasAggregates THEN <<>>
                     ELSE IF Len(q.groupBy) > 0
                     THEN <<[op |-> "HashAggregate", arg |-> groupByIndices]>>
                     ELSE <<[op |-> "ScalarAggregate", arg |-> <<>>]>>
        fileColumns == [i \in 1..Len(PlanSchema.Columns) |-> <<PlanSchema.Columns[i]>>]
        current == IF sel.hasAggregates
                   THEN aggregateColumns(PlanSchema, groupByIndices, sel.aggregates)
                   ELSE fileColumns
        orderIdx == IF q.orderBy = <<>> THEN 0 - 1
                    ELSE ColumnIndex(current, <<q.orderBy[1].name>>)
        orderBad == q.orderBy # <<>> /\ orderIdx < 0
        sort == IF q.orderBy = <<>> THEN <<>>
                ELSE <<[op |-> "Sort", arg |-> <<orderIdx>>]>>
        limitBad == q.limit # <<>> /\ ~q.limit[1].ok
        limit == IF q.limit = <<>> THEN <<>>
                 ELSE <<[op |-> "Limit", arg |-> <<q.limit[1].val>>]>>
        project == IF ~sel.hasAggregates /\ Len(columns) > 0
                   THEN <<[op |-> "Project", arg |-> columns]>>
                   ELSE <<>>
    IN  IF whereBad THEN [err |-> "column not found in schema", tree |-> <<>>]
        ELSE IF orderBad THEN [err |-> "ORDER BY column not found", tree |-> <<>>]
        ELSE IF limitBad THEN [err |-> "LIMIT must be an integer", tree |-> <<>>]
        ELSE [err |-> "nil",
              tree |-> wire(<<[op |-> "Scan", arg |-> <<>>]>>, filters, aggregate,
                            sort, limit, project)]

\* The zone map sidecar of the file when the query is planned: the bounds
\* that GenerateZoneMap saved for the integer column a.
SidecarBounds == {<<0, 1>>, <<0, 5>>}

SidecarSaved ==
    /\ header = <<"a", "b">>
    /\ csvRows = <<>>
    /\ zmPc = "saved"
    /\ rowCount = 2
    /\ isIntColumn = {1}
    /\ \E b \in SidecarBounds :
          /\ minValues = MapPut(EmptyMap, "a", b[1])
          /\ maxValues = MapPut(EmptyMap, "a", b[2])
    /\ pruneCall = <<>>

PlanInit ==
    /\ SortUnused
    /\ (ZoneMapUnused \/ SidecarSaved)
    /\ AggregateUnused
    /\ hashOp = Unused
    /\ limitOp = Unused
    /\ filterOp = Unused
    /\ projectOp = Unused
    /\ scanOp = Unused
    /\ cmpCall = Unused
    /\ input = <<>>
    /\ inputEOS = FALSE
    /\ srcFile = "open"
    /\ fault = FALSE
    /\ given = <<>>
    /\ out = <<>>
    /\ lastRet = "none"
    /\ nextFailed = FALSE
    /\ closeRets = <<>>
    /\ planCall = [pc |-> "ready"]
    /\ sortPair = Unused
    /\ rowCmp = Unused

\* ParseAndPlan is called with a query.
PlanCall ==
    /\ planCall.pc = "ready"
    /\ \E q \in PlanQueries :
          planCall' = [pc |-> "done", query |-> q, result |-> ParseAndPlan(q)]
    /\ UNCHANGED <<sortVars, zmVars, aggVars, hashOp, limitOp, filterOp,
                   projectOp, scanOp, cmpCall, sortPair, rowCmp>>

SpecPlan == PlanInit /\ [][PlanCall]_vars

(***************************************************************************)
(* Properties of ParseAndPlan.                                             *)
(***************************************************************************)
KnownColumn(name) == \E i \in 1..Len(PlanSchema.Columns) : PlanSchema.Columns[i] = name

\* The query names a column the file lacks: in the SELECT list, as the
\* argument of an aggregate, in WHERE, in GROUP BY or in ORDER BY.
BadSelectColumn(q) ==
    \E i \in 1..Len(q.selectExprs) :
        q.selectExprs[i].kind = "col" /\ ~KnownColumn(q.selectExprs[i].name)
BadAggregateArgument(q) ==
    \E i \in 1..Len(q.selectExprs) :
        /\ q.selectExprs[i].kind = "func"
        /\ q.selectExprs[i].name # "*"
        /\ ~KnownColumn(q.selectExprs[i].name)
BadWhereColumn(q) == \E i \in 1..Len(q.where) : ~KnownColumn(q.where[i].name)
BadGroupByColumn(q) == \E i \in 1..Len(q.groupBy) : ~KnownColumn(q.groupBy[i])
BadOrderByColumn(q) == \E i \in 1..Len(q.orderBy) : ~KnownColumn(q.orderBy[i].name)

\* C20: ParseAndPlan returns an error whenever the query references a
\* column name that the schema lacks, in the SELECT list, as an aggregate
\* argument, in WHERE, in GROUP BY or in ORDER BY: no operator tree is made
\* of such a query.
BadColumnIsPlanError ==
    planCall.pc = "done" =>
        LET q == planCall.query
        IN  (BadSelectColumn(q) \/ BadAggregateArgument(q) \/ BadWhereColumn(q)
                \/ BadGroupByColumn(q) \/ BadOrderByColumn(q))
            => (planCall.result.err # "nil" /\ planCall.result.tree = <<>>)

\* What holds of the code: a column that WHERE or ORDER BY names and the
\* file lacks is an error of planning.
BadWhereOrOrderByIsPlanError ==
    planCall.pc = "done" =>
        LET q == planCall.query
        IN  (BadWhereColumn(q) \/ BadOrderByColumn(q))
            => (planCall.result.err # "nil" /\ planCall.result.tree = <<>>)


(***************************************************************************)
(* The planner and the zone map.                                           *)
(***************************************************************************)
\* The zone map of the source rules the query out: CanPrune holds for the
\* WHERE conjunct, which compares a tracked column with an integer.
SourcePruned(q) ==
    \E i \in 1..Len(q.where) :
        /\ q.where[i].value.t = "int64"
        /\ CanPrune(q.where[i].name, q.where[i].comp, q.where[i].value.v[1])

HasScan(tree) == \E i \in 1..Len(tree) : tree[i].op = "Scan"

\* C21: planning consults the zone map of the source before the Scan is
\* constructed: when CanPrune holds for a WHERE conjunct on a tracked
\* column, the plan has no Scan of the source (the source is skipped); with
\* no sidecar the query is planned as usual.
PrunedSourceIsSkipped ==
    planCall.pc = "done" =>
        (SourcePruned(planCall.query) => ~HasScan(planCall.result.tree))


(***************************************************************************)
(* Any one operator over its upstream: the operators' Next and Close.      *)
(***************************************************************************)
OperatorInit ==
    \/ ScanInit
    \/ FilterInit
    \/ ProjectInit
    \/ AggInit
    \/ HashInit
    \/ SortInit
    \/ LimitInit

OperatorStep ==
    \/ ScanStep
    \/ FilterStep
    \/ ProjectStep
    \/ AggStep
    \/ HashStep
    \/ SortStep
    \/ LimitStep

SpecOperators == OperatorInit /\ [][OperatorStep]_vars

\* C22: after any prefix of Next calls on an operator (none, some, or all
\* rows up to end of stream), the first Close returns no error and the
\* Close of the upstream has been called down to the source, whose file is
\* closed, unless closing the file itself fails in the operating system.
EarlyClose ==
    (~fault /\ Len(closeRets) >= 1) =>
        /\ closeRets[1] = "nil"
        /\ srcFile = "closed"

\* A LimitOp is closed once its limit is satisfied, with rows of the
\* upstream left unread.
EarlyCloseWitness ==
    /\ limitOp.pc = "idle"
    /\ ~fault
    /\ closeRets = <<"nil">>
    /\ srcFile = "closed"
    /\ Len(out) >= 1
    /\ lastRet = "row"
    /\ ~inputEOS
    /\ Len(input) >= 1


(***************************************************************************)
(* Two SortOp instances that run at once: their temporary files.  Each     *)
(* instance has its own upstream; the directory of temporary files is      *)
(* shared.  A run file holds <<i, k>>: the k-th run of instance i.         *)
(***************************************************************************)
\* the most chunks an instance flushes
MaxPairChunks == 2

\* The names os.CreateTemp("", "golap_sort_*.csv") chooses from: few enough
\* for a name to be taken again after its file is removed.
RunNames == 1..(MaxPairChunks + 1)

\* A CreateTemp that returns a name whether or not the file exists.
createTempAnyName(dir) == RunNames
\* os.CreateTemp opens the file with O_EXCL and tries another name when the
\* file exists: the name it returns is of no file of the directory.
createTemp(dir) == RunNames \ DOMAIN dir

NoFile == <<>>

\* NewSortOpWithChunkSize, and the chunks the upstream's rows make.
newPairOp(chunks) ==
    [chunks |-> chunks, prepared |-> FALSE, exhausted |-> FALSE,
     tempFiles |-> <<>>, files |-> <<>>, pc |-> "partition", setupIdx |-> 0,
     read |-> {}, merged |-> {}, removed |-> {}, closed |-> FALSE]

PairInit ==
    /\ SortUnused
    /\ ZoneMapUnused
    /\ AggregateUnused
    /\ hashOp = Unused
    /\ limitOp = Unused
    /\ filterOp = Unused
    /\ projectOp = Unused
    /\ scanOp = Unused
    /\ cmpCall = Unused
    /\ planCall = Unused
    /\ rowCmp = Unused
    /\ input = <<>>
    /\ inputEOS = FALSE
    /\ srcFile = "open"
    /\ fault = FALSE
    /\ given = <<>>
    /\ out = <<>>
    /\ lastRet = "none"
    /\ nextFailed = FALSE
    /\ closeRets = <<>>
    /\ \E c1 \in 0..MaxPairChunks, c2 \in 0..MaxPairChunks :
          sortPair = [pc |-> "run", dir |-> EmptyMap, fault |-> FALSE,
                      op |-> <<newPairOp(c1), newPairOp(c2)>>]

pairOthers == <<sortVars, zmVars, aggVars, hashOp, limitOp, filterOp,
                projectOp, scanOp, cmpCall, planCall, rowCmp>>

\* prepare's flushChunk of instance i: create a temporary file, write the
\* sorted chunk and register the file; when CreateTemp fails nothing is
\* made, when a write fails the file is removed again and not registered,
\* and in both cases Next returns the error with the chunk lost.
PairFlushChunk(i) ==
    LET s == sortPair.op[i]
    IN  /\ sortPair.pc = "run"
        /\ ~s.closed
        /\ s.pc = "partition"
        /\ s.chunks > 0
        /\ \/ /\ ~sortPair.fault
              /\ sortPair' = [sortPair EXCEPT !.fault = TRUE,
                                              !.op[i].chunks = @ - 1]
           \/ \E name \in createTemp(sortPair.dir) :
                 sortPair' = [sortPair EXCEPT
                    !.dir = MapPut(@, name, <<i, Len(s.tempFiles) + 1>>),
                    !.op[i].tempFiles = Append(@, name),
                    !.op[i].chunks = @ - 1]
        /\ UNCHANGED pairOthers

\* setupMerge of instance i before its loop, once upstream is exhausted.
PairSetupBegin(i) ==
    LET s == sortPair.op[i]
    IN  /\ sortPair.pc = "run"
        /\ ~s.closed
        /\ s.pc = "partition"
        /\ s.chunks = 0
        /\ sortPair' = [sortPair EXCEPT !.op[i] =
              IF Len(s.tempFiles) = 0
              THEN [s EXCEPT !.exhausted = TRUE, !.prepared = TRUE, !.pc = "merge"]
              ELSE [s EXCEPT !.files = [k \in 1..Len(s.tempFiles) |-> NoFile],
                             !.setupIdx = 0, !.pc = "open"]]
        /\ UNCHANGED pairOthers

\* setupMerge of instance i, one iteration: os.Open of the run's path and
\* the Read of its first record.  When either fails Next returns the error
\* and a later Next runs prepare again.
PairSetupOpen(i) ==
    LET s    == sortPair.op[i]
        path == s.tempFiles[s.setupIdx + 1]
        last == s.setupIdx + 1 = Len(s.tempFiles)
    IN  /\ sortPair.pc = "run"
        /\ ~s.closed
        /\ s.pc = "open"
        /\ \E ioerr \in BOOLEAN :
              /\ ioerr => ~sortPair.fault
              /\ sortPair' =
                    IF ioerr \/ path \notin DOMAIN sortPair.dir
                    THEN [sortPair EXCEPT !.fault = @ \/ ioerr,
                                          !.op[i].pc = "partition"]
                    ELSE [sortPair EXCEPT !.op[i] =
                            [s EXCEPT !.files[s.setupIdx + 1] = <<path>>,
                                      !.read = @ \cup {<<s.setupIdx + 1,
                                                        sortPair.dir[path]>>},
                                      !.setupIdx = @ + 1,
                                      !.prepared = last,
                                      !.pc = IF last THEN "merge" ELSE "open"]]
        /\ UNCHANGED pairOthers

\* Next of instance i after prepare: a Read from the file of run k.
PairMerge(i) ==
    LET s == sortPair.op[i]
    IN  /\ sortPair.pc = "run"
        /\ ~s.closed
        /\ s.pc = "merge"
        /\ \E k \in 1..Len(s.files) :
              /\ s.files[k] # NoFile
              /\ s.files[k][1] \in DOMAIN sortPair.dir
              /\ <<k, sortPair.dir[s.files[k][1]]>> \notin s.merged
              /\ sortPair' = [sortPair EXCEPT !.op[i].merged =
                                 @ \cup {<<k, sortPair.dir[s.files[k][1]]>>}]
        /\ UNCHANGED pairOthers

\* Close of instance i: the first call closes the input, closes the files
\* of the file table and removes every registered path; a later call
\* returns the error of the input's Close before it does either.
PairClose(i) ==
    LET s == sortPair.op[i]
        paths == {s.tempFiles[k] : k \in 1..Len(s.tempFiles)} \cap DOMAIN sortPair.dir
    IN  /\ sortPair.pc = "run"
        /\ s.pc \in {"partition", "merge"}
        /\ sortPair' =
              IF s.closed
              THEN sortPair
              ELSE [sortPair EXCEPT
                      !.dir = [n \in DOMAIN sortPair.dir \ paths |-> sortPair.dir[n]],
                      !.op[i].files = [k \in 1..Len(s.files) |-> NoFile],
                      !.op[i].removed = {sortPair.dir[n] : n \in paths},
                      !.op[i].closed = TRUE]
        /\ UNCHANGED pairOthers

PairStep ==
    \E i \in 1..2 :
        \/ PairFlushChunk(i)
        \/ PairSetupBegin(i)
        \/ PairSetupOpen(i)
        \/ PairMerge(i)
        \/ PairClose(i)

SpecSortPair == PairInit /\ [][PairStep]_vars

\* C23: two SortOp instances whose partition, merge and Close steps
\* interleave never hold the same run file name at once; the run files an
\* instance has registered stay in the directory with what that instance
\* wrote until its own Close; every record an instance reads from run k is
\* what it wrote to its run k (its output is what it is alone); and a Close
\* removes only files the closing instance wrote.
RunFilesNotShared ==
    sortPair.pc = "run" =>
        \A i \in 1..2 :
            LET s == sortPair.op[i]
                o == sortPair.op[3 - i]
            IN  /\ ~s.closed =>
                     \A k \in 1..Len(s.tempFiles) :
                        /\ s.tempFiles[k] \in DOMAIN sortPair.dir
                        /\ sortPair.dir[s.tempFiles[k]] = <<i, k>>
                /\ (~s.closed /\ ~o.closed) =>
                     \A k \in 1..Len(s.tempFiles), m \in 1..Len(o.tempFiles) :
                        s.tempFiles[k] # o.tempFiles[m]
                /\ \A r \in s.read \cup s.merged : r[2] = <<i, r[1]>>
                /\ \A d \in s.removed : d[1] = i

\* Instance 1 has closed and removed its runs; instance 2 has since created
\* a run under a name instance 1 had used, has opened its runs and reads them.
RunFilesNotSharedWitness ==
    /\ sortPair.pc = "run"
    /\ sortPair.op[1].closed
    /\ sortPair.op[1].removed # {}
    /\ ~sortPair.op[2].closed
    /\ sortPair.op[2].prepared
    /\ Len(sortPair.op[2].tempFiles) = 2
    /\ sortPair.op[2].merged # {}
    /\ \E k \in 1..Len(sortPair.op[1].tempFiles) :
          sortPair.op[1].tempFiles[k] = sortPair.op[2].tempFiles[2]


(***************************************************************************)
(* The schema each operator reports, against the rows it returns.          *)
(***************************************************************************)
\* An aggregate operator that declares every aggregate column Float.
aggregateDataTypeFloat(ty) == "Float"
\* NewScalarAggregateOp and NewHashAggregateOp, the type of an aggregate's
\* column: COUNT is Int, every other aggregate Float.
aggregateDataType(ty) == IF ty = "Count" THEN "Int" ELSE "Float"

\* NewScalarAggregateOp, the types of the output schema.
scalarOutputTypes(aggs) == [i \in 1..Len(aggs) |-> aggregateDataType(aggs[i].Type)]

\* NewHashAggregateOp, the types of the output schema: the types of the
\* GROUP BY columns (Int, the zero DataType, for an index out of range),
\* then those of the aggregates.
hashOutputTypes(inputTypes, groupByIndices, aggs) ==
    [i \in 1..Len(groupByIndices) |->
        IF groupByIndices[i] >= 0 /\ groupByIndices[i] < Len(inputTypes)
        THEN inputTypes[groupByIndices[i] + 1] ELSE "Int"]
    \o scalarOutputTypes(aggs)

\* The types of the upstream's schema where the upstream is not a CSVScan of
\* the model: those of the rows HashInit, FilterInit and LimitInit give.
HashInputTypes == <<"String", "Int">>
FilterInputTypes == <<"Int", "String">>
LimitInputTypes == <<"Int">>

\* Schema().Types of the operator the specification constructs; FilterOp,
\* SortOp and LimitOp report the schema of their input.
SchemaTypes ==
    CASE scanOp # Unused -> scanOp.schema.Types
      [] filterOp # Unused -> FilterInputTypes
      [] projectOp # Unused -> projectOp.outputSchema.Types
      [] aggPc # "unused" -> scalarOutputTypes(aggregates)
      [] hashOp # Unused ->
            hashOutputTypes(HashInputTypes, hashOp.groupByIndices, hashOp.aggregates)
      [] pc # "unused" -> schema
      [] limitOp # Unused -> LimitInputTypes
      [] OTHER -> <<>>

\* The Go type of the values of a column of the DataType.
GoType(dt) ==
    CASE dt = "Int" -> "int64"
      [] dt = "Float" -> "float64"
      [] OTHER -> "string"

\* C24: every row that Next of an operator (Scan, Filter, Project,
\* ScalarAggregate, HashAggregate, Sort, Limit) has returned has as many
\* values as the operator's Schema() has columns, and each value is of the
\* declared type of its column or null.
RowsMatchSchema ==
    \A r \in 1..Len(out) :
        /\ Len(out[r]) = Len(SchemaTypes)
        /\ \A i \in 1..Len(out[r]) :
              out[r][i].t \in {GoType(SchemaTypes[i]), "nil"}

\* A HashAggregateOp has returned a row of a text key, an integer count
\* and a float sum.
RowsMatchSchemaWitness ==
    /\ hashOp # Unused
    /\ Len(out) >= 2
    /\ SchemaTypes = <<"String", "Int", "Float">>
    /\ out[1][1].t = "string"
    /\ out[1][2].t = "int64"
    /\ out[1][3].t = "float64"


(***************************************************************************)
(* SortOp: failures of the run files and of the upstream.                  *)
(***************************************************************************)
\* The names of the registered runs.
RunPaths == {tempFiles[i] : i \in 1..Len(tempFiles)}

\* C25: when creating, writing or reading a run file fails, or the upstream
\* fails during the partition phase, the Next at hand returns the error at
\* once: it returns no row and does not try the failed operation again; the
\* file of a run whose writing failed is removed and is not registered.
SortErrorPropagates ==
    [][(pc \notin {"idle", "unused"} /\ ~fault /\ fault')
          => /\ pc' = "idle"
             /\ lastRet' = "err"
             /\ out' = out
             /\ tempFiles' = tempFiles
             /\ DOMAIN disk' = RunPaths]_vars

\* A Next has failed while it wrote the second run: its file is gone and
\* only the first run is registered.
SortErrorPropagatesWitness ==
    /\ pc = "idle"
    /\ lastRet = "err"
    /\ fault
    /\ closeRets = <<>>
    /\ Len(tempFiles) = 1
    /\ tempSeq = 2
    /\ DOMAIN disk = RunPaths
    /\ out = <<>>


\* C26: over an upstream that yields no row, SortOp creates no run file and
\* every Next, the first and each later one, returns end of stream.
EmptyUpstreamSort ==
    (pc # "unused" /\ given = <<>> /\ ~fault) =>
        /\ tempSeq = 0
        /\ tempFiles = <<>>
        /\ disk = <<>>
        /\ out = <<>>
        /\ lastRet \in {"none", "eos"}
        /\ (pc = "idle" /\ lastRet = "eos") => (prepared /\ exhausted)

\* The first Next over an empty upstream has returned end of stream and a
\* later Next is under way.
EmptyUpstreamSortWitness ==
    /\ given = <<>>
    /\ ~fault
    /\ inputEOS
    /\ lastRet = "eos"
    /\ pc = "merge"
    /\ prepared
    /\ exhausted
    /\ tempSeq = 0


(***************************************************************************)
(* The sort comparator: SortOp.compareRows and mergeHeap.compareRows on    *)
(* two rows of one value, the sort column.                                 *)
(***************************************************************************)
RowCompareInit ==
    /\ SortUnused
    /\ ZoneMapUnused
    /\ AggregateUnused
    /\ hashOp = Unused
    /\ limitOp = Unused
    /\ filterOp = Unused
    /\ projectOp = Unused
    /\ scanOp = Unused
    /\ cmpCall = Unused
    /\ planCall = Unused
    /\ sortPair = Unused
    /\ input = <<>>
    /\ inputEOS = FALSE
    /\ srcFile = "open"
    /\ fault = FALSE
    /\ given = <<>>
    /\ out = <<>>
    /\ lastRet = "none"
    /\ nextFailed = FALSE
    /\ closeRets = <<>>
    /\ rowCmp = [pc |-> "ready"]

\* compareRows is called with two rows; less is what flushChunk's
\* sort.Slice and mergeHeap.Less make of its result.
RowCompareCall ==
    /\ rowCmp.pc = "ready"
    /\ \E a \in CompareLefts, b \in CompareLefts :
          rowCmp' = [pc |-> "done", a |-> a, b |-> b,
                     result |-> compareRows(<<a>>, <<b>>),
                     less |-> rowLess(<<a>>, <<b>>)]
    /\ UNCHANGED <<sortVars, zmVars, aggVars, hashOp, limitOp, filterOp,
                   projectOp, scanOp, cmpCall, planCall, sortPair>>

SpecRowCompare == RowCompareInit /\ [][RowCompareCall]_vars

\* C27: the sort comparator orders integers and floats numerically, an
\* integer promoted to float when the other value is a float, and text
\* lexicographically; it returns 0 (equal) for two equal values and else
\* only for a pair whose types disagree after promotion (a number against
\* text, a null).
SortComparatorPromotes ==
    rowCmp.pc = "done" =>
        LET a == rowCmp.a
            b == rowCmp.b
        IN  rowCmp.result =
               IF IsNumber(a) /\ IsNumber(b)
               THEN Sign(RatLess(AsRat(a), AsRat(b)), RatLess(AsRat(b), AsRat(a)))
               ELSE IF a.t = "string" /\ b.t = "string"
               THEN Sign(StrLess(a.v, b.v), StrLess(b.v, a.v))
               ELSE 0

\* What holds of the code: two values of one type are ordered numerically
\* or lexicographically, and every pair of two types compares equal.
SortComparatorSameType ==
    rowCmp.pc = "done" =>
        LET a == rowCmp.a
            b == rowCmp.b
        IN  rowCmp.result =
               IF a.t = b.t /\ IsNumber(a)
               THEN Sign(RatLess(AsRat(a), AsRat(b)), RatLess(AsRat(b), AsRat(a)))
               ELSE IF a.t = "string" /\ b.t = "string"
               THEN Sign(StrLess(a.v, b.v), StrLess(b.v, a.v))
               ELSE 0


(***************************************************************************)
(* SortOp: the runs of the partition phase.                                *)
(***************************************************************************)
\* prepare has consumed the upstream and flushed every chunk, no operation
\* has failed and Close has not removed the runs.
PartitionDone ==
    /\ pc \in {"setup", "open", "merge", "idle"}
    /\ inputEOS
    /\ ~fault
    /\ closeRets = <<>>

\* The records of run k, and the upstream rows they were made of: the
\* first value of an upstream row is its position in the upstream.
RunRecords(k) == disk[tempFiles[k]]
RunIds(k) == [i \in 1..Len(RunRecords(k)) |-> ParseInt(RunRecords(k)[i][1]).v]
RunRows(k) == [i \in 1..Len(RunRecords(k)) |-> given[RunIds(k)[i]]]

\* The values of the sort column are of one type, or all null: what an
\* upstream of a fixed per-column type yields.
OneType(seq) ==
    \A i, j \in 1..Len(seq) : seq[i][columnIndex + 1].t = seq[j][columnIndex + 1].t

HashMaterializesFirst ==
    /\ [](out # <<>> => (inputEOS /\ hashOp.computed /\ input = <<>>))
    /\ [](given = <<>> => out = <<>>)
    /\ [][hashOp.computed =>
            (hashOp'.computed /\ hashOp'.pc # "compute" /\ input' = input)]_vars

\* Every group's row has been returned, the first only after the fourth
\* upstream row and the end of the upstream, and a later Next has returned
\* end of stream.
HashMaterializesFirstWitness ==
    /\ hashOp # Unused
    /\ hashOp.computed
    /\ Len(given) = 4
    /\ Len(out) = 2
    /\ inputEOS
    /\ lastRet = "eos"


(***************************************************************************)
(* HashAggregateOp against ScalarAggregateOp.                              *)
(***************************************************************************)
\* ScalarAggregateOp.Next over the rows: the states after its loop has
\* streamed every row, and the values of the result row.
RECURSIVE scalarStates(_, _)
scalarStates(aggs, rows) ==
    IF rows = <<>> THEN [i \in 1..Len(aggs) |-> newAggregateState]
    ELSE LET before == scalarStates(aggs, SubSeq(rows, 1, Len(rows) - 1))
         IN  [i \in 1..Len(aggs) |-> updateState(before[i], aggs[i], rows[Len(rows)])]

scalarResult(aggs, rows) ==
    [i \in 1..Len(aggs) |-> finalizeState(scalarStates(aggs, rows)[i], aggs[i])]

\* The rows, in their order, whose composite group key is key.
RECURSIVE RowsOfKey(_, _)
RowsOfKey(rows, key) ==
    IF rows = <<>> THEN <<>>
    ELSE LET front == RowsOfKey(SubSeq(rows, 1, Len(rows) - 1), key)
             last  == rows[Len(rows)]
         IN  IF buildGroupKey(hashOp.groupByIndices, last, 1) = key
             THEN Append(front, last) ELSE front

\* C30: in every row HashAggregateOp has emitted, the aggregate values are
\* those ScalarAggregateOp produces for the same aggregate expressions over
\* exactly the upstream rows that carry the group's key, and the key
\* columns hold the key values of the first of these rows.
HashMatchesScalar ==
    hashOp # Unused =>
        \A g \in 1..Len(out) :
            LET rows == RowsOfKey(given, hashOp.keys[g])
                nk   == Len(hashOp.groupByIndices)
            IN  /\ rows # <<>>
                /\ Len(out[g]) = nk + Len(hashOp.aggregates)
                /\ \A i \in 1..nk :
                      out[g][i] = ValueAt(rows[1], hashOp.groupByIndices[i])
                /\ SubSeq(out[g], nk + 1, Len(out[g]))
                      = scalarResult(hashOp.aggregates, rows)

\* The group of key B, rows 1 and 3 of four, is emitted first: its count
\* is 2 and its sum, minimum, maximum and average are those of 1 and 3.
HashMatchesScalarWitness ==
    /\ hashOp # Unused
    /\ hashOp.aggregates = AggregateList(1)
    /\ GivenKeys = <<StrV(<<66>>), StrV(<<65>>), StrV(<<66>>), StrV(<<67>>)>>
    /\ Len(out) >= 1
    /\ out[1] = <<StrV(<<66>>), IntV(2), IntV(2), FloatV(<<4, 1>>),
                  FloatV(<<1, 1>>), FloatV(<<3, 1>>), FloatV(<<2, 1>>)>>


(***************************************************************************)
(* Finalization of ScalarAggregateOp.                                      *)
(***************************************************************************)
\* The numeric values, as float64, that the rows hold in the column of the
\* aggregate: the values that contribute to it.
RECURSIVE Contributing(_, _)
Contributing(agg, rows) ==
    IF rows = <<>> THEN <<>>
    ELSE LET row  == Head(rows)
             rest == Contributing(agg, Tail(rows))
             c    == agg.ColumnIndex
         IN  IF c >= 0 /\ c < Len(row) /\ row[c + 1].t \in {"int64", "float64"}
             THEN <<IF row[c + 1].t = "int64" THEN <<row[c + 1].v[1], 1>>
                    ELSE row[c + 1].v>> \o rest
             ELSE rest

RECURSIVE RatSum(_)
RatSum(nums) ==
    IF nums = <<>> THEN <<0, 1>> ELSE RatAdd(Head(nums), RatSum(Tail(nums)))

Range(seq) == {seq[i] : i \in DOMAIN seq}
RatLeast(S) == CHOOSE x \in S : \A y \in S : ~RatLess(y, x)
RatGreatest(S) == CHOOSE x \in S : \A y \in S : ~RatLess(x, y)

\* What the finalization rules give for one aggregate over the rows.
FinalValue(agg, rows) ==
    LET nums == Contributing(agg, rows)
        sum  == RatSum(nums)
    IN  CASE agg.Type = "Count" -> IntV(Len(rows))
          [] agg.Type = "Sum" -> FloatV(sum)
          [] agg.Type = "Min" ->
                IF nums = <<>> THEN NilV ELSE FloatV(RatLeast(Range(nums)))
          [] agg.Type = "Max" ->
                IF nums = <<>> THEN NilV ELSE FloatV(RatGreatest(Range(nums)))
          [] agg.Type = "Avg" ->
                IF rows = <<>> THEN NilV
                ELSE FloatV(Rat(sum[1], sum[2] * Len(rows)))

\* C31: the result row of ScalarAggregateOp holds, for each aggregate, the
\* value of the finalization rules over the rows its Next streamed: Count
\* the tally of rows, Sum the sum of the contributing values and 0.0 when
\* there is none, Min and Max the least and greatest contributing value
\* and null when there is none, Avg null for no row and else sum / count.
\* The rows are all upstream rows when no Next has returned an error, and
\* the rows left after the error otherwise.
ScalarFinalization ==
    (aggPc # "unused" /\ out # <<>>) =>
        \E k \in 0..Len(given) :
            /\ ~nextFailed => k = 0
            /\ Len(out[1]) = Len(aggregates)
            /\ \A i \in 1..Len(aggregates) :
                  out[1][i] = FinalValue(aggregates[i],
                                         SubSeq(given, k + 1, Len(given)))

\* the result over three rows, two numeric values and a null, of the
\* aggregates over the numeric column
ScalarFinalizationWitness ==
    /\ aggPc # "unused"
    /\ ~nextFailed
    /\ aggregates = AggregateList(0)
    /\ Len(given) = 3
    /\ given[1][1] = IntV(4)
    /\ given[2][1] = NilV
    /\ given[3][1] = FloatV(<<1, 2>>)
    /\ out = <<<<IntV(3), IntV(3), FloatV(<<9, 2>>), FloatV(<<1, 2>>),
                 FloatV(<<4, 1>>), FloatV(<<3, 2>>)>>>>


(***************************************************************************)
(* HashAggregateOp grouping by two columns: the composite group key.       *)
(***************************************************************************)
\* the longest upstream row sequence of the two-column grouping
MaxKeyRows == 2

\* The values of the two group-by columns: the texts "a", "b", "a\x00",
\* "\x00b" and "<nil>", and null.
GroupKeyValues ==
    {StrV(<<97>>), StrV(<<98>>), StrV(<<97, 0>>), StrV(<<0, 98>>),
     StrV(NilText), NilV}

\* NewHashAggregateOp over an upstream of two-column rows: GROUP BY both
\* columns, COUNT(*).
GroupKeyInit ==
    /\ SortUnused
    /\ ZoneMapUnused
    /\ AggregateUnused
    /\ limitOp = Unused
    /\ filterOp = Unused
    /\ projectOp = Unused
    /\ scanOp = Unused
    /\ cmpCall = Unused
    /\ planCall = Unused
    /\ sortPair = Unused
    /\ rowCmp = Unused
    /\ \E n \in 0..MaxKeyRows :
         given \in [1..n -> GroupKeyValues \X GroupKeyValues]
    /\ input = given
    /\ inputEOS = FALSE
    /\ srcFile = "open"
    /\ fault = FALSE
    /\ out = <<>>
    /\ lastRet = "none"
    /\ nextFailed = FALSE
    /\ closeRets = <<>>
    /\ hashOp = [pc |-> "idle",
                 groupByIndices |-> <<0, 1>>,
                 aggregates |-> <<[Type |-> "Count", ColumnIndex |-> 0 - 1]>>,
                 computed |-> FALSE,
                 groups |-> EmptyMap,
                 keys |-> <<>>,
                 keyIndex |-> 0]

SpecGroupKey == GroupKeyInit /\ [][HashStep]_vars

\* The group-by values of a row, column by column.
GroupByTuple(row) ==
    [i \in 1..Len(hashOp.groupByIndices) |->
        ValueAt(row, hashOp.groupByIndices[i])]

\* The upstream rows computeGroups has placed in a group so far.
PlacedRows == 1..(Len(given) - Len(input))

\* C32: two upstream rows are placed in the same group only if their
\* group-by value tuples are equal column by column, and so there are as
\* many groups as distinct tuples among the rows placed.
GroupKeyNoCollision ==
    hashOp # Unused =>
        /\ \A i, j \in PlacedRows :
              (\E k \in DOMAIN hashOp.groups :
                  /\ buildGroupKey(hashOp.groupByIndices, given[i], 1) = k
                  /\ buildGroupKey(hashOp.groupByIndices, given[j], 1) = k)
              => GroupByTuple(given[i]) = GroupByTuple(given[j])
        /\ Len(hashOp.keys)
              = Cardinality({GroupByTuple(given[i]) : i \in PlacedRows})


(***************************************************************************)
(* The bounds of the zone map while GenerateZoneMap reads the file.        *)
(***************************************************************************)
\* C33: while GenerateZoneMap processes rows, MinValues and MaxValues hold
\* the same columns (the columns still tracked), min <= max for each, and
\* from one row to the next no column is added, the min of a column that
\* stays tracked does not increase and its max does not decrease.
ZoneBoundsMonotone ==
    /\ [](zmPc \in {"first", "scan", "done", "error", "queried"} =>
            /\ DOMAIN minValues = DOMAIN maxValues
            /\ DOMAIN minValues = isIntColumn
            /\ \A c \in DOMAIN minValues : minValues[c] <= maxValues[c])
    /\ [][zmPc = "scan" =>
            /\ DOMAIN minValues' \subseteq DOMAIN minValues
            /\ \A c \in DOMAIN minValues' :
                  /\ minValues'[c] <= minValues[c]
                  /\ maxValues'[c] >= maxValues[c]]_vars

\* the second row read: it has lowered the min of column a from 50 to 10
\* and raised the max of column b from -20 to 5
ZoneBoundsMonotoneWitness ==
    /\ zmPc = "scan"
    /\ header = <<"a", "b">>
    /\ rowCount = 2
    /\ csvRows[1] = <<<<53, 48>>, <<45, 50, 48>>>>
    /\ csvRows[2] = <<<<49, 48>>, <<53>>>>
    /\ minValues["a"] = 10 /\ maxValues["a"] = 50
    /\ minValues["b"] = 0 - 20 /\ maxValues["b"] = 5


(***************************************************************************)
(* The order of the operators in the tree ParseAndPlan builds.             *)
(***************************************************************************)
\* The place of an operator in Scan, Filter, Aggregate, Sort, Limit,
\* Project.
PlanRank(op) ==
    CASE op = "Scan" -> 1
      [] op = "Filter" -> 2
      [] op \in {"HashAggregate", "ScalarAggregate"} -> 3
      [] op = "Sort" -> 4
      [] op = "Limit" -> 5
      [] op = "Project" -> 6

HasOp(tree, ops) == \E i \in 1..Len(tree) : tree[i].op \in ops

HasFunc(q) == \E i \in 1..Len(q.selectExprs) : q.selectExprs[i].kind = "func"

\* C34: the tree of a planned query is wired in the order Scan, Filter,
\* Aggregate, Sort, Limit, Project, each operator wrapping the one before:
\* the Scan is innermost, the Filter of WHERE is under the aggregate, the
\* Sort of ORDER BY is over the aggregate or the filter, the Limit of
\* LIMIT n is over the Sort and holds n, and the Project is outermost.
PlanOrder ==
    (planCall.pc = "done" /\ planCall.result.err = "nil") =>
        LET q    == planCall.query
            tree == planCall.result.tree
        IN  /\ Len(tree) >= 1
            /\ tree[1].op = "Scan"
            /\ \A i, j \in 1..Len(tree) :
                  i < j => PlanRank(tree[i].op) < PlanRank(tree[j].op)
            /\ HasOp(tree, {"Filter"}) <=> q.where # <<>>
            /\ HasOp(tree, {"HashAggregate", "ScalarAggregate"}) <=> HasFunc(q)
            /\ HasOp(tree, {"HashAggregate"}) <=> (HasFunc(q) /\ q.groupBy # <<>>)
            /\ HasOp(tree, {"Sort"}) <=> q.orderBy # <<>>
            /\ HasOp(tree, {"Limit"}) <=> q.limit # <<>>
            /\ \A i \in 1..Len(tree) :
                  tree[i].op = "Limit" => tree[i].arg = <<q.limit[1].val>>
            /\ HasOp(tree, {"Project"}) =>
                  (~HasFunc(q) /\ tree[Len(tree)].op = "Project")

\* SELECT b FROM f WHERE a > 1 ORDER BY a LIMIT 2: the tree is Scan, Filter,
\* Sort, Limit, Project
PlanOrderWitness ==
    /\ planCall.pc = "done"
    /\ planCall.result.err = "nil"
    /\ Len(planCall.result.tree) = 5
    /\ [i \in 1..5 |-> planCall.result.tree[i].op]
          = <<"Scan", "Filter", "Sort", "Limit", "Project">>
    /\ planCall.result.tree[4].arg = <<2>>
    /\ planCall.result.tree[2].arg = <<0>>


(***************************************************************************)
(* SortOp after a Next that returned an error.                             *)
(***************************************************************************)
\* C35: a sort failure is fatal: once a Next of SortOp has returned an
\* error, no later Next returns a row.
SortFailureFatal ==
    [][(pc # "unused" /\ nextFailed) => out' = out]_vars


(***************************************************************************)
(* End of stream, once returned.                                           *)
(***************************************************************************)
\* The operator has nothing more to return: the state in which its Next
\* takes the branch that returns end of stream.  For FilterOp, ProjectOp
\* and LimitOp that is the end of the upstream, which has returned end of
\* stream and, having the property itself, goes on returning it.
StreamEnded ==
    CASE scanOp # Unused ->
            ~returnBuffered(scanOp) /\ scanOp.read = Len(csvRows)
      [] filterOp # Unused -> inputEOS
      [] projectOp # Unused -> inputEOS
      [] limitOp # Unused ->
            \/ inputEOS
            \/ ~stillSkipping(limitOp) /\ limitReached(limitOp)
      [] aggPc # "unused" -> computed
      [] hashOp # Unused ->
            hashOp.computed /\ hashOp.keyIndex >= Len(hashOp.keys)
      [] pc # "unused" ->
            prepared /\ (exhausted \/ mergeHeap.nil \/ mergeHeap.items = <<>>)
      [] OTHER -> FALSE

\* C36: once the Next of an operator has returned end of stream, every
\* later Next returns end of stream unless an I/O operation fails in it,
\* and no later Next returns a row.  End of stream is returned only in a
\* state where the stream has ended, and from such a state on the stream
\* stays ended and the rows returned stay as they are.
EndOfStreamSticky ==
    /\ [](lastRet = "eos" => StreamEnded)
    /\ [][StreamEnded => (StreamEnded' /\ out' = out)]_vars
    /\ [][(lastRet = "eos" /\ ~(~fault /\ fault')) => lastRet' = "eos"]_vars

\* a LimitOp that has returned its rows and end of stream, with rows of
\* its upstream left unread, in a later Next
EndOfStreamStickyWitness ==
    /\ limitOp # Unused
    /\ limitOp.pc = "run"
    /\ lastRet = "eos"
    /\ input # <<>>
    /\ Len(out) >= 1


(***************************************************************************)
(* The rows LimitOp pulls from its upstream.                               *)
(***************************************************************************)
\* The upstream rows LimitOp has obtained, and those of them it has not
\* returned.
RowsPulled == Len(given) - Len(input)
RowsDiscarded == RowsPulled - Len(out)

\* C37: LimitOp obtains at most offset + limit rows from its upstream; the
\* first offset rows it pulls are discarded and never returned; and once
\* it has returned limit rows, the rows of the offset discarded before
\* them, a Next calls no Next of the upstream and returns end of stream.
LimitPullsBounded ==
    /\ [](limitOp # Unused =>
            /\ RowsPulled <= limitOp.offset + limitOp.limit
            /\ RowsDiscarded <= limitOp.offset
            /\ Len(out) <= limitOp.limit
            /\ out # <<>> => RowsDiscarded = limitOp.offset
            /\ \A i \in 1..Len(out) : out[i] = given[limitOp.offset + i])
    /\ [][(limitOp # Unused /\ Len(out) >= limitOp.limit
              /\ RowsDiscarded >= limitOp.offset)
            => /\ input' = input
               /\ inputEOS' = inputEOS
               /\ out' = out
               /\ (limitOp.pc = "run" /\ limitOp'.pc = "idle") => lastRet' = "eos"
               /\ limitOp' # limitOp => ~(~fault /\ fault')]_vars

\* limit 2, offset 1 over five rows: rows 2 and 3 have been returned, a
\* later Next has returned end of stream, rows 4 and 5 are still upstream
LimitPullsBoundedWitness ==
    /\ limitOp # Unused
    /\ limitOp.limit = 2
    /\ limitOp.offset = 1
    /\ Len(given) = 5
    /\ Len(input) = 2
    /\ out = <<given[2], given[3]>>
    /\ lastRet = "eos"
    /\ limitOp.pc = "idle"


(***************************************************************************)
(* Rows through the run files of SortOp.                                   *)
(***************************************************************************)
\* C38: run serialization round-trips: recordToRow(rowToRecord(r)) = r for
\* every upstream row r, whose values are of the schema types or null, and
\* so every row SortOp returns is, value for value, a row it received.
RunRoundTrip ==
    (pc # "unused" /\ tempFiles # <<>>) =>
        /\ \A i \in 1..(Len(given) - Len(input)) :
              recordToRow(rowToRecord(given[i])) = given[i]
        /\ \A i \in 1..Len(out) : \E j \in 1..Len(given) : out[i] = given[j]


(***************************************************************************)
(* The count of an aggregate, in scalar and in grouped aggregation.        *)
(***************************************************************************)
\* the longest upstream row sequence of the grouped aggregation over a
\* column of numbers, texts and nulls
MaxCountRows == 3

\* NewHashAggregateOp over an upstream of rows (key, value), the key "A" or
\* "B" and the value a number, a text or null: GROUP BY the first column,
\* COUNT and AVG of the second.
CountInit ==
    /\ SortUnused
    /\ ZoneMapUnused
    /\ AggregateUnused
    /\ limitOp = Unused
    /\ filterOp = Unused
    /\ projectOp = Unused
    /\ scanOp = Unused
    /\ cmpCall = Unused
    /\ planCall = Unused
    /\ sortPair = Unused
    /\ rowCmp = Unused
    /\ \E n \in 0..MaxCountRows :
         given \in [1..n -> {StrV(<<65>>), StrV(<<66>>)}
                              \X {IntV(4), IntV(1), NilV, StrV(<<97>>)}]
    /\ input = given
    /\ inputEOS = FALSE
    /\ srcFile = "open"
    /\ fault = FALSE
    /\ out = <<>>
    /\ lastRet = "none"
    /\ nextFailed = FALSE
    /\ closeRets = <<>>
    /\ hashOp = [pc |-> "idle",
                 groupByIndices |-> <<0>>,
                 aggregates |-> <<[Type |-> "Count", ColumnIndex |-> 1],
                                  [Type |-> "Avg", ColumnIndex |-> 1]>>,
                 computed |-> FALSE,
                 groups |-> EmptyMap,
                 keys |-> <<>>,
                 keyIndex |-> 0]

\* ScalarAggregateOp, or HashAggregateOp, over its upstream.
SpecAggregates == (AggInit \/ CountInit) /\ [][AggStep \/ HashStep]_vars

\* COUNT(col) and AVG(col) over the rows when every row is counted.
CountOfAllRows(agg, rows) ==
    LET sum == RatSum(Contributing(agg, rows))
    IN  IF agg.Type = "Count" THEN IntV(Len(rows))
        ELSE IF rows = <<>> THEN NilV
        ELSE FloatV(Rat(sum[1], sum[2] * Len(rows)))

\* C39: the count of an aggregate is incremented once per upstream row,
\* whatever the aggregated column holds: COUNT(col) is the number of
\* upstream rows (of the group) and AVG(col) the sum of the numeric values
\* divided by the number of all rows.  The rows of a scalar aggregate are
\* all upstream rows when no Next has returned an error, and the rows left
\* after the error otherwise.
CountEveryRow ==
    /\ (aggPc # "unused" /\ out # <<>>) =>
          \E k \in 0..Len(given) :
             /\ ~nextFailed => k = 0
             /\ \A i \in 1..Len(aggregates) :
                   aggregates[i].Type \in {"Count", "Avg"} =>
                      out[1][i] = CountOfAllRows(aggregates[i],
                                                 SubSeq(given, k + 1, Len(given)))
    /\ hashOp # Unused =>
          \A g \in 1..Len(out) :
             LET rows == RowsOfKey(given, hashOp.keys[g])
                 nk   == Len(hashOp.groupByIndices)
             IN  \A i \in 1..Len(hashOp.aggregates) :
                    hashOp.aggregates[i].Type \in {"Count", "Avg"} =>
                       out[g][nk + i] = CountOfAllRows(hashOp.aggregates[i], rows)

\* the group of key A holds the values 4, null and a text: its COUNT is 3
\* and its AVG 4/3
CountEveryRowWitness ==
    /\ hashOp # Unused
    /\ given = <<<<StrV(<<65>>), IntV(4)>>, <<StrV(<<65>>), NilV>>,
                 <<StrV(<<65>>), StrV(<<97>>)>>>>
    /\ out = <<<<StrV(<<65>>), IntV(3), FloatV(<<4, 3>>)>>>>


(***************************************************************************)
(* SortOp: blocking, and prepared once.                                    *)
(***************************************************************************)
\* C40: SortOp returns no row before its upstream has returned end of
\* stream, and once prepare has succeeded no Next runs any part of it
\* again: no Next pulls from the upstream and none creates a run file.
SortPreparesOnce ==
    /\ [](pc # "unused" =>
            /\ out # <<>> => (prepared /\ inputEOS /\ input = <<>>)
            /\ prepared =>
                  pc \notin {"partition", "flush", "flushTail", "setup", "open"})
    /\ [][(pc # "unused" /\ prepared) =>
            /\ prepared'
            /\ input' = input
            /\ inputEOS' = inputEOS
            /\ tempFiles' = tempFiles
            /\ tempSeq' = tempSeq
            /\ DOMAIN disk' \subseteq DOMAIN disk]_vars

\* three rows in two runs, the second row returned by the second Next
SortPreparesOnceWitness ==
    /\ pc = "idle"
    /\ prepared
    /\ Len(given) = 3
    /\ Len(tempFiles) = 2
    /\ Len(out) = 2
    /\ lastRet = "row"
    /\ ~nextFailed

=============================================================================
